---- MODULE Spec2Model ----
(***************************************************************************)
(* Receipt normalisation, reconciliation, ingestion and the natural-       *)
(* language query engine (rule-based and model-assisted) of the             *)
(* Auto-Bookkeeper.                                                         *)
(*                                                                         *)
(* Conventions of the model                                                *)
(*  - an optional JavaScript value (T | undefined | null) is a sequence of *)
(*    length 0 (absent) or 1 (present): Absent, Some(v);                    *)
(*  - a JavaScript string that the code inspects character by character is *)
(*    a sequence of one-character strings;                                  *)
(*  - monetary amounts are integers counted in hundredths of the currency  *)
(*    unit, so 45.5 is 4550; a tolerance (amount * 0.05) is counted in      *)
(*    ten-thousandths, so 2.275 is 22750.                                   *)
(***************************************************************************)
EXTENDS Integers, Sequences, FiniteSets, TLC

VARIABLES
  pc,          \* position of the call under study: "call" before, "done" after
  priceStr,    \* parseCordPrice: the argument
  price,       \* parseCordPrice: the returned value
  result,      \* validateExtractionResult: the argument (result.data)
  errors,      \* validateExtractionResult: the returned error list
  gtParse,     \* cordToExtractionResult: the argument
  extraction,  \* cordToExtractionResult: the returned ExtractionResult.data
  query,       \* parseQuery: the argument
  parsed,      \* parseQuery: the returned { sql, params, intent }
  rawResponse, \* parseExtractionResponse: the argument
  vendors,     \* table vendors
  receipts,    \* table receipts
  line_items,  \* table line_items
  nextId,      \* number of the next identifier uuidv4() hands out
  request,     \* the last HTTP request handled
  response,    \* the response to it
  chat_history, \* table chat_history
  inflight     \* the query requests suspended at a call of the model

vars == <<pc, priceStr, price, result, errors, gtParse, extraction, query,
          parsed, rawResponse, vendors, receipts, line_items, nextId, request, response,
          chat_history, inflight>>

pureVars == <<pc, priceStr, price, result, errors, gtParse, extraction,
              query, parsed, rawResponse>>
storeVars == <<vendors, receipts, line_items, nextId, request, response,
               chat_history, inflight>>
chatVars == <<chat_history, inflight>>

----------------------------------------------------------------------------
(* JavaScript values *)

Absent == <<>>
Some(v) == <<v>>
IsPresent(o) == o # Absent
Val(o) == o[1]

\* truthiness of an optional number: undefined, null and 0 are falsy
TruthyNum(o) == IsPresent(o) /\ Val(o) # 0
\* truthiness of an optional string: undefined, null and "" are falsy
TruthyStr(o) == IsPresent(o) /\ Val(o) # <<>>
\* a || b on optional numbers
OrElse(a, b) == IF TruthyNum(a) THEN a ELSE b

Abs(n) == IF n < 0 THEN -n ELSE n

RECURSIVE SeqsUpTo(_, _)
SeqsUpTo(S, n) ==
  IF n = 0 THEN {<<>>}
  ELSE LET shorter == SeqsUpTo(S, n - 1)
       IN  shorter \cup {Append(s, c) : s \in shorter, c \in S}

----------------------------------------------------------------------------
(* parseCordPrice *)

DigitChars == <<"0", "1", "2", "3", "4", "5", "6", "7", "8", "9">>
IsDigit(c) == \E i \in 1..10 : DigitChars[i] = c
DigitVal(c) == (CHOOSE i \in 1..10 : DigitChars[i] = c) - 1

\* parseInt(s, 10): the longest prefix of decimal digits; NaN when the prefix
\* is empty (never the case at the call sites, which guard on it)
RECURSIVE ParseIntFrom(_, _, _)
ParseIntFrom(s, i, acc) ==
  IF i > Len(s) \/ ~IsDigit(s[i]) THEN acc
  ELSE ParseIntFrom(s, i + 1, acc * 10 + DigitVal(s[i]))
parseInt(s) == ParseIntFrom(s, 1, 0)

\* priceStr.replace(/[^\d]/g, '')
StripNonDigits(s) == SelectSeq(s, IsDigit)

\* the variant that keeps the decimal point, as the source comment describes
parseCordPriceKeepPoint(p) ==
  IF ~TruthyStr(p) THEN Absent
  ELSE LET cleaned == SelectSeq(Val(p), LAMBDA c : IsDigit(c) \/ c = ".")
       IN  IF cleaned # <<>> THEN Some(parseInt(cleaned)) ELSE Absent

parseCordPrice(p) ==
  IF ~TruthyStr(p) THEN Absent
  ELSE LET cleaned == StripNonDigits(Val(p))
       IN  IF cleaned # <<>> THEN Some(parseInt(cleaned)) ELSE Absent

\* bounds of the price strings
MaxPriceLen == 3
PriceChars == {"0", "1", "5", "6", ",", ".", "-", "$"}
Price16500 == <<"1", "6", ",", "5", "0", "0">>
PriceStrings == SeqsUpTo(PriceChars, MaxPriceLen) \cup {Price16500}
PriceInputs == {Absent} \cup {Some(s) : s \in PriceStrings}

IdlePure ==
  /\ priceStr = Absent /\ price = Absent
  /\ result = Absent /\ errors = <<>>
  /\ gtParse = Absent /\ extraction = Absent
  /\ query = <<>> /\ parsed = Absent /\ rawResponse = Absent
IdleStore ==
  /\ vendors = <<>> /\ receipts = <<>> /\ line_items = <<>>
  /\ nextId = 1 /\ request = [route |-> "none"] /\ response = [status |-> 0]
  /\ chat_history = <<>> /\ inflight = <<>>

InitPrice ==
  /\ pc = "call"
  /\ priceStr \in PriceInputs
  /\ price = Absent
  /\ result = Absent /\ errors = <<>>
  /\ gtParse = Absent /\ extraction = Absent
  /\ query = <<>> /\ parsed = Absent /\ rawResponse = Absent
  /\ IdleStore

CallParseCordPrice ==
  /\ pc = "call"
  /\ price' = parseCordPrice(priceStr)
  /\ pc' = "done"
  /\ UNCHANGED <<priceStr, result, errors, gtParse, extraction, query, parsed,
                 rawResponse>>
  /\ UNCHANGED storeVars

NextPrice == CallParseCordPrice
SpecPrice == InitPrice /\ [][NextPrice]_vars

----------------------------------------------------------------------------
(* C1 *)

\* Number.prototype.toString: the decimal digits of a natural number
RECURSIVE ToDigits(_)
ToDigits(n) ==
  IF n < 10 THEN <<DigitChars[n + 1]>>
  ELSE Append(ToDigits(n \div 10), DigitChars[(n % 10) + 1])

RECURSIVE DropLeadingZeros(_)
DropLeadingZeros(s) ==
  IF Len(s) > 1 /\ s[1] = "0" THEN DropLeadingZeros(Tail(s)) ELSE s

HasDigit(s) == \E i \in 1..Len(s) : IsDigit(s[i])

----------------------------------------------------------------------------
(* validateExtractionResult *)

ErrTotalRequired == "Total amount is required"
ErrItemRequired == "At least one line item is required"
\* `Items sum (${itemsSum}) doesn't match subtotal (${expectedSubtotal})`
ErrItemsSum == "Items sum doesn't match subtotal"

RECURSIVE SumTotalPrice(_)
SumTotalPrice(items) ==
  IF items = <<>> THEN 0
  ELSE items[1].totalPrice + SumTotalPrice(Tail(items))

\* the variant that also adds the prices of the sub-items
RECURSIVE itemsSumWithSubItems(_)
itemsSumWithSubItems(items) ==
  IF items = <<>> THEN 0
  ELSE items[1].totalPrice + SumTotalPrice(items[1].subItems)
         + itemsSumWithSubItems(Tail(items))

\* result.data.items.reduce((sum, item) => sum + item.totalPrice, 0)
itemsSum(items) == SumTotalPrice(items)

\* the variant written with ?? instead of ||
expectedSubtotalNullish(receipt) ==
  IF IsPresent(receipt.subtotal) THEN receipt.subtotal ELSE receipt.totalAmount

\* result.data.receipt.subtotal || result.data.receipt.totalAmount
expectedSubtotal(receipt) == OrElse(receipt.subtotal, receipt.totalAmount)

\* the variant with the fixed tolerance of one currency unit
toleranceFixed(expected) == 10000

\* expectedSubtotal * 0.05, in ten-thousandths of the currency unit
tolerance(expected) == expected * 5

\* Math.abs(itemsSum - expectedSubtotal)
difference(sum, expected) == Abs(sum - expected)

\* the variant that tests the amount the items are compared against
totalAmountErrorsOfExpected(receipt) ==
  IF ~TruthyNum(expectedSubtotal(receipt)) THEN <<ErrTotalRequired>> ELSE <<>>

\* if (!result.data.receipt.totalAmount) errors.push(...)
totalAmountErrors(receipt) ==
  IF ~TruthyNum(receipt.totalAmount) THEN <<ErrTotalRequired>> ELSE <<>>

\* if (result.data.items.length === 0) errors.push(...)
lineItemErrors(items) ==
  IF Len(items) = 0 THEN <<ErrItemRequired>> ELSE <<>>

\* the tolerance check; with neither subtotal nor totalAmount the operands
\* are NaN and the comparison is false
itemsSumErrors(data) ==
  LET expected == expectedSubtotal(data.receipt)
  IN  IF /\ IsPresent(expected)
         /\ 100 * difference(itemsSum(data.items), Val(expected))
              > tolerance(Val(expected))
      THEN <<ErrItemsSum>>
      ELSE <<>>

validateExtractionResult(data) ==
  totalAmountErrors(data.receipt) \o lineItemErrors(data.items)
    \o itemsSumErrors(data)

Reported(e, errs) == \E i \in 1..Len(errs) : errs[i] = e

\* bounds of the receipts handed to the validator
MaxItems == 2
ItemPrices == {0, 5, 6, 94, 95, 100}
SubItemLists == {<<>>, <<[totalPrice |-> 5]>>}
ValidatedItems ==
  [totalPrice : ItemPrices, subItems : SubItemLists]
ValidatedTotals == {Absent} \cup {Some(n) : n \in {-100, 0, 100, 200}}
ValidatedSubtotals == {Absent} \cup {Some(n) : n \in {0, 100}}

\* the record of the Latte / Croissant scenario
LatteRecord ==
  [receipt |-> [totalAmount |-> Some(5005), subtotal |-> Some(4550)],
   items |-> << [totalPrice |-> 1100, subItems |-> <<>>],
                [totalPrice |-> 450, subItems |-> <<>>] >>]

ValidatedResults ==
  {[receipt |-> [totalAmount |-> t, subtotal |-> s], items |-> its] :
      t \in ValidatedTotals, s \in ValidatedSubtotals,
      its \in SeqsUpTo(ValidatedItems, MaxItems)}
    \cup {LatteRecord}

InitValidate ==
  /\ pc = "call"
  /\ result \in ValidatedResults
  /\ errors = <<>>
  /\ priceStr = Absent /\ price = Absent
  /\ gtParse = Absent /\ extraction = Absent
  /\ query = <<>> /\ parsed = Absent /\ rawResponse = Absent
  /\ IdleStore

CallValidateExtractionResult ==
  /\ pc = "call"
  /\ errors' = validateExtractionResult(result)
  /\ pc' = "done"
  /\ UNCHANGED <<priceStr, price, result, gtParse, extraction, query, parsed,
                 rawResponse>>
  /\ UNCHANGED storeVars

NextValidate == CallValidateExtractionResult
SpecValidate == InitValidate /\ [][NextValidate]_vars

----------------------------------------------------------------------------
(* C2 .. C5, C7 *)

\* the sum of totalPrice over the top-level line items only
TopLevelSum(items) ==
  LET RECURSIVE Upto(_)
      Upto(n) == IF n = 0 THEN 0 ELSE Upto(n - 1) + items[n].totalPrice
  IN  Upto(Len(items))

\* the amount the items are compared against: the subtotal when it is present
\* and non-zero, the total amount otherwise
ComparedAgainst(receipt) ==
  IF IsPresent(receipt.subtotal) /\ Val(receipt.subtotal) # 0
  THEN receipt.subtotal
  ELSE receipt.totalAmount

\* C2: with itemsSum the sum over the top-level items only, no items-sum
\* mismatch is reported when |itemsSum - expectedSubtotal| is at most 5% of
\* expectedSubtotal, and the mismatch is reported when it exceeds 5%.
C2_Tolerance ==
  (pc = "done" /\ IsPresent(ComparedAgainst(result.receipt))) =>
    LET sum == TopLevelSum(result.items)
        expected == Val(ComparedAgainst(result.receipt))
    IN  /\ 20 * Abs(sum - expected) <= expected
            => ~Reported(ErrItemsSum, errors)
        /\ 20 * Abs(sum - expected) > expected
            => Reported(ErrItemsSum, errors)

\* a receipt whose sub-items would push the sum out of the tolerance, and
\* whose top-level sum is on the 5% boundary
C2_Witness ==
  /\ pc = "done"
  /\ result.receipt.subtotal = Some(100)
  /\ Len(result.items) = 2
  /\ TopLevelSum(result.items) = 105
  /\ \E i \in 1..2 : result.items[i].subItems # <<>>
  /\ ~Reported(ErrItemsSum, errors)

\* C3: a receipt whose totalAmount is missing always gets the error
\* 'Total amount is required', whatever its items, their sum and its subtotal.
C3_TotalRequired ==
  (pc = "done" /\ result.receipt.totalAmount = Absent) =>
    Reported(ErrTotalRequired, errors)

\* missing total, but items that agree with a present subtotal
C3_Witness ==
  /\ pc = "done"
  /\ result.receipt.totalAmount = Absent
  /\ result.receipt.subtotal = Some(100)
  /\ TopLevelSum(result.items) = 100
  /\ errors = <<ErrTotalRequired>>

\* C4 as stated: the value compared against is the subtotal whenever a
\* subtotal is present, a present subtotal of 0 included, and the total
\* amount only when the subtotal is absent.
C4_Original ==
  pc = "done" =>
    expectedSubtotal(result.receipt) =
      (IF IsPresent(result.receipt.subtotal)
       THEN result.receipt.subtotal
       ELSE result.receipt.totalAmount)

\* C4 amended: the value compared against is the subtotal whenever a
\* subtotal is present and non-zero, and the total amount when the subtotal
\* is absent or 0; the mismatch error follows that value.
C4_ExpectedSubtotal ==
  pc = "done" =>
    /\ expectedSubtotal(result.receipt) = ComparedAgainst(result.receipt)
    /\ (/\ result.receipt.subtotal = Some(0)
        /\ result.receipt.totalAmount = Some(100)
        /\ TopLevelSum(result.items) = 100)
          => ~Reported(ErrItemsSum, errors)

C4_Witness ==
  /\ pc = "done"
  /\ result.receipt.subtotal = Some(0)
  /\ result.receipt.totalAmount = Some(100)
  /\ TopLevelSum(result.items) = 100
  /\ errors = <<>>

\* C5: the required-field error for the total is reported exactly for the
\* receipts whose totalAmount is not both present and strictly positive, the
\* required-field error for the items exactly for the receipts with no line
\* item, independently of the tolerance check.
C5_RequiredFields ==
  pc = "done" =>
    /\ Reported(ErrTotalRequired, errors)
         <=> ~(IsPresent(result.receipt.totalAmount)
                 /\ Val(result.receipt.totalAmount) > 0)
    /\ Reported(ErrItemRequired, errors) <=> result.items = <<>>

----------------------------------------------------------------------------
(* cordToExtractionResult *)

\* truthiness of an optional name (an opaque string): undefined and "" are falsy
TruthyName(o) == IsPresent(o) /\ Val(o) # ""

\* gtParse.<object>?.<field>: absent when the object is absent
Field(obj, f) == IF IsPresent(obj) THEN Val(obj)[f] ELSE Absent

\* one entry of gtParse.menu (or of its sub list) as a LineItem
CordLineItem(item, defaultName) ==
  [name |-> IF TruthyName(item.nm) THEN Val(item.nm) ELSE defaultName,
   quantity |-> Val(OrElse(parseCordPrice(item.cnt), Some(1))),
   unitPrice |-> parseCordPrice(item.unitprice),
   totalPrice |-> Val(OrElse(parseCordPrice(item.price), Some(0)))]

CordItems(menu) ==
  [i \in 1..Len(menu) |->
     LET item == menu[i]
         top == CordLineItem(item, "Unknown Item")
     IN  [name |-> top.name, quantity |-> top.quantity,
          unitPrice |-> top.unitPrice, totalPrice |-> top.totalPrice,
          subItems |-> [j \in 1..Len(item.sub) |->
                          CordLineItem(item.sub[j], "Sub-item")]]]

\* the variant that tests the paid amounts for presence instead of truthiness
PaymentMethodOfPresence(cashPaid, cardPaid) ==
  IF IsPresent(cashPaid) /\ IsPresent(cardPaid) THEN "mixed"
  ELSE IF IsPresent(cashPaid) THEN "cash"
  ELSE IF IsPresent(cardPaid) THEN "card"
  ELSE "other"

\* let paymentMethod = 'other'; if (cashPaid && cardPaid) ... else if ...
PaymentMethodOf(cashPaid, cardPaid) ==
  IF TruthyNum(cashPaid) /\ TruthyNum(cardPaid) THEN "mixed"
  ELSE IF TruthyNum(cashPaid) THEN "cash"
  ELSE IF TruthyNum(cardPaid) THEN "card"
  ELSE "other"

\* the variant that names every record's vendor, as the seeding route does
CordVendorDefaulted(store_info) ==
  Some([name |-> IF TruthyName(Field(store_info, "name"))
                 THEN Val(Field(store_info, "name")) ELSE "Unknown Vendor",
        address |-> Field(store_info, "addr"),
        phone |-> Field(store_info, "tel"),
        businessNumber |-> Field(store_info, "biznum")])

\* gtParse.store_info?.name ? { name, address, phone, businessNumber } : null
CordVendor(store_info) ==
  IF TruthyName(Field(store_info, "name"))
  THEN Some([name |-> Val(Field(store_info, "name")),
             address |-> Field(store_info, "addr"),
             phone |-> Field(store_info, "tel"),
             businessNumber |-> Field(store_info, "biznum")])
  ELSE Absent

\* the data part of the returned ExtractionResult
cordToExtractionResult(g) ==
  LET totalAmount == OrElse(parseCordPrice(Field(g.total, "total_price")), Some(0))
      cashPaid == parseCordPrice(Field(g.total, "cashprice"))
      cardPaid == parseCordPrice(Field(g.total, "creditcardprice"))
  IN  [vendor |-> CordVendor(g.store_info),
       receipt |->
         [subtotal |-> parseCordPrice(Field(g.sub_total, "subtotal_price")),
          taxAmount |-> parseCordPrice(Field(g.sub_total, "tax_price")),
          serviceCharge |-> parseCordPrice(Field(g.sub_total, "service_price")),
          discount |-> parseCordPrice(Field(g.sub_total, "discount_price")),
          totalAmount |-> totalAmount,
          paymentMethod |-> PaymentMethodOf(cashPaid, cardPaid),
          cashPaid |-> cashPaid,
          cardPaid |-> cardPaid,
          changeAmount |-> parseCordPrice(Field(g.total, "changeprice")),
          itemTypeCount |-> parseCordPrice(Field(g.total, "menutype_cnt")),
          totalItemCount |-> parseCordPrice(Field(g.total, "menuqty_cnt"))],
       items |-> IF IsPresent(g.menu) THEN CordItems(Val(g.menu)) ELSE <<>>]

\* bounds of the ground-truth records
CordPrices ==
  {Absent, Some(<<>>), Some(<<"0">>), Some(<<"-">>), Some(<<"5", "0">>),
   Some(<<"1", ",", "5", "0", "0">>)}
CordTotalPrices == {Absent, Some(<<"1", ",", "5", "0", "0">>)}
CordNames == {Absent, Some(""), Some("Toko A")}
CordTotals ==
  {Absent} \cup
  {Some([total_price |-> t, cashprice |-> c, creditcardprice |-> k,
         changeprice |-> Absent, menutype_cnt |-> Absent,
         menuqty_cnt |-> Absent]) :
     t \in CordTotalPrices, c \in CordPrices, k \in CordPrices}
CordStoreInfos ==
  {Absent} \cup
  {Some([name |-> n, addr |-> Some("Jl. 1"), tel |-> Absent, biznum |-> Absent]) :
     n \in CordNames}
CordSubTotals ==
  {Absent,
   Some([subtotal_price |-> Some(<<"1", ",", "5", "0", "0">>),
         tax_price |-> Absent, service_price |-> Absent,
         discount_price |-> Absent])}
CordMenuItem(itemPrice, sub) ==
  [nm |-> Some("Nasi"), cnt |-> Some(<<"1">>), unitprice |-> Absent,
   price |-> itemPrice, sub |-> sub]
CordMenus ==
  {Absent, Some(<<>>),
   Some(<<CordMenuItem(Some(<<"1", ",", "5", "0", "0">>), <<>>)>>),
   Some(<<CordMenuItem(Some(<<"1", ",", "5", "0", "0">>),
                       <<[nm |-> Absent, cnt |-> Absent, unitprice |-> Absent,
                          price |-> Some(<<"5", "0">>)]>>)>>)}
GtParses ==
  [menu : CordMenus, sub_total : CordSubTotals, total : CordTotals,
   store_info : CordStoreInfos]

InitCord ==
  /\ pc = "call"
  /\ gtParse \in GtParses
  /\ extraction = Absent
  /\ priceStr = Absent /\ price = Absent
  /\ result = Absent /\ errors = <<>>
  /\ query = <<>> /\ parsed = Absent /\ rawResponse = Absent
  /\ IdleStore

CallCordToExtractionResult ==
  /\ pc = "call"
  /\ extraction' = Some(cordToExtractionResult(gtParse))
  /\ pc' = "done"
  /\ UNCHANGED <<priceStr, price, result, errors, gtParse, query, parsed,
                 rawResponse>>
  /\ UNCHANGED storeVars

NextCord == CallCordToExtractionResult
SpecCord == InitCord /\ [][NextCord]_vars

----------------------------------------------------------------------------
(* C8 *)

\* an amount of the record is paid when its string holds a non-zero digit
NonZeroDigits == {"1", "2", "3", "4", "5", "6", "7", "8", "9"}
PaidAmount(p) ==
  /\ IsPresent(p)
  /\ \E i \in 1..Len(Val(p)) : Val(p)[i] \in NonZeroDigits

\* C8: cordToExtractionResult sets paymentMethod to 'mixed' when both the
\* cash-paid and the card-paid amount are present and non-zero, to 'cash'
\* when only the cash-paid one is, to 'card' when only the card-paid one is,
\* to 'other' when neither is; no other value is produced.
C8_PaymentMethod ==
  pc = "done" =>
    LET cash == PaidAmount(Field(gtParse.total, "cashprice"))
        card == PaidAmount(Field(gtParse.total, "creditcardprice"))
        method == Val(extraction).receipt.paymentMethod
    IN  /\ method \in {"cash", "card", "mixed", "other"}
        /\ method = "mixed" <=> (cash /\ card)
        /\ method = "cash" <=> (cash /\ ~card)
        /\ method = "card" <=> (~cash /\ card)
        /\ method = "other" <=> (~cash /\ ~card)

\* a cash amount of "0" next to a card amount: the method is card, not mixed
C8_Witness ==
  /\ pc = "done"
  /\ Field(gtParse.total, "cashprice") = Some(<<"0">>)
  /\ Field(gtParse.total, "creditcardprice") = Some(<<"5", "0">>)
  /\ Val(extraction).receipt.paymentMethod = "card"

----------------------------------------------------------------------------
(* parseQuery: the rule-based translation of a question to a query *)

UpperCase ==
  <<"A", "B", "C", "D", "E", "F", "G", "H", "I", "J", "K", "L", "M", "N",
      "O", "P", "Q", "R", "S", "T", "U", "V", "W", "X", "Y", "Z">>
LowerCase ==
  <<"a", "b", "c", "d", "e", "f", "g", "h", "i", "j", "k", "l", "m", "n",
      "o", "p", "q", "r", "s", "t", "u", "v", "w", "x", "y", "z">>
UpperCaseLetters == {UpperCase[i] : i \in DOMAIN UpperCase}
ToLowerChar(c) ==
  IF c \in UpperCaseLetters
  THEN LowerCase[CHOOSE i \in DOMAIN UpperCase : UpperCase[i] = c]
  ELSE c
\* query.toLowerCase()
toLowerCase(s) == [i \in 1..Len(s) |-> ToLowerChar(s[i])]

\* String.prototype.includes
includes(s, sub) ==
  \E i \in 0..(Len(s) - Len(sub)) : \A j \in 1..Len(sub) : s[i + j] = sub[j]

\* QUERY_PATTERNS: every pattern is an alternation of literal words, tested
\* case-insensitively anywhere in the text
QUERY_PATTERNS ==
  [total_spending |->
     {<<"h", "o", "w", " ", "m", "u", "c", "h">>, <<"t", "o", "t", "a",
         "l">>, <<"s", "p", "e", "n", "t">>, <<"s", "p", "e", "n", "d", "i",
         "n", "g">>, <<"s", "u", "m">>},
   high_value |->
     {<<"a", "b", "o", "v", "e">>, <<"o", "v", "e", "r">>, <<"m", "o", "r",
         "e", " ", "t", "h", "a", "n">>, <<"g", "r", "e", "a", "t", "e",
         "r">>, <<"e", "x", "p", "e", "n", "s", "i", "v", "e">>,
      <<"h", "i", "g", "h", "e", "s", "t">>},
   low_value |->
     {<<"b", "e", "l", "o", "w">>, <<"u", "n", "d", "e", "r">>, <<"l", "e",
         "s", "s", " ", "t", "h", "a", "n">>, <<"c", "h", "e", "a", "p", "e",
         "r">>, <<"l", "o", "w", "e", "s", "t">>,
      <<"c", "h", "e", "a", "p", "e", "s", "t">>},
   flagged |->
     {<<"f", "l", "a", "g">>, <<"e", "r", "r", "o", "r">>, <<"m", "i", "s",
         "m", "a", "t", "c", "h">>, <<"p", "r", "o", "b", "l", "e", "m">>,
         <<"i", "s", "s", "u", "e">>, <<"w", "r", "o", "n", "g">>},
   payment_method |->
     {<<"c", "a", "s", "h">>, <<"c", "a", "r", "d">>, <<"c", "r", "e", "d",
         "i", "t">>, <<"e", "-", "m", "o", "n", "e", "y">>, <<"p", "a", "y",
         "m", "e", "n", "t">>},
   count |->
     {<<"h", "o", "w", " ", "m", "a", "n", "y">>, <<"c", "o", "u", "n",
         "t">>, <<"n", "u", "m", "b", "e", "r", " ", "o", "f">>},
   list |->
     {<<"s", "h", "o", "w">>, <<"l", "i", "s", "t">>, <<"f", "i", "n", "d">>,
         <<"g", "e", "t">>, <<"d", "i", "s", "p", "l", "a", "y">>, <<"a",
         "l", "l">>},
   tax |->
     {<<"t", "a", "x">>, <<"v", "a", "t">>},
   vendor |->
     {<<"v", "e", "n", "d", "o", "r">>, <<"m", "e", "r", "c", "h", "a", "n",
         "t">>, <<"s", "t", "o", "r", "e">>, <<"s", "h", "o", "p">>},
   category |->
     {<<"c", "a", "t", "e", "g", "o", "r", "y">>, <<"t", "y", "p", "e">>,
         <<"k", "i", "n", "d">>},
   audit |->
     {<<"a", "u", "d", "i", "t">>, <<"d", "u", "p", "l", "i", "c", "a", "t",
         "e">>, <<"s", "u", "s", "p", "i", "c", "i", "o", "u", "s">>, <<"a",
         "l", "c", "o", "h", "o", "l">>, <<"t", "o", "b", "a", "c", "c",
         "o">>},
   recent |->
     {<<"r", "e", "c", "e", "n", "t">>, <<"l", "a", "t", "e", "s", "t">>,
         <<"l", "a", "s", "t">>},
   date |->
     {<<"t", "o", "d", "a", "y">>, <<"y", "e", "s", "t", "e", "r", "d", "a",
         "y">>, <<"w", "e", "e", "k">>, <<"m", "o", "n", "t", "h">>, <<"d",
         "a", "t", "e">>}]

\* QUERY_PATTERNS.<label>.test(lowerQuery), the patterns carrying the i flag
Test(label, s) ==
  \E word \in QUERY_PATTERNS[label] : includes(toLowerCase(s), word)

\* query.match(/(\d+[\d,]*)/): the first run of digits and commas that starts
\* with a digit
FirstDigitRun(s) ==
  IF ~HasDigit(s) THEN Absent
  ELSE LET first == CHOOSE i \in 1..Len(s) :
                      IsDigit(s[i]) /\ \A j \in 1..(i - 1) : ~IsDigit(s[j])
           last == CHOOSE k \in first..Len(s) :
                     /\ \A j \in first..k : IsDigit(s[j]) \/ s[j] = ","
                     /\ k = Len(s) \/ ~(IsDigit(s[k + 1]) \/ s[k + 1] = ",")
       IN  Some(SubSeq(s, first, last))

\* parseInt(match[1].replace(/,/g, '')), null without a match
extractNumber(s) ==
  LET match == FirstDigitRun(s)
  IN  IF IsPresent(match)
      THEN Some(parseInt(SelectSeq(Val(match), LAMBDA c : c # ",")))
      ELSE Absent

\* the query templates; a query text is the record of its clauses
NoLimit == Absent
SqlCountFlagged ==
  [select |-> "COUNT(*) as count",
   where |-> "status = 'flagged'", groupBy |-> "", orderBy |-> "",
   limit |-> NoLimit]
SqlCountAll ==
  [select |-> "COUNT(*) as count, SUM(total_amount) as total",
   where |-> "", groupBy |-> "", orderBy |-> "", limit |-> NoLimit]
SqlTotalSpending ==
  [select |-> "COUNT(*) as receipt_count, SUM(total_amount) as total_spent, SUM(tax_amount) as total_tax, AVG(total_amount) as avg_receipt",
   where |-> "", groupBy |-> "", orderBy |-> "", limit |-> NoLimit]
SqlFlagged ==
  [select |-> "r.id, r.total_amount, r.status, v.name as vendor",
   where |-> "r.status = 'flagged'", groupBy |-> "",
   orderBy |-> "r.total_amount DESC", limit |-> NoLimit]
SqlHighValue ==
  [select |-> "r.id, r.total_amount, r.payment_method, v.name as vendor",
   where |-> "r.total_amount > ?", groupBy |-> "",
   orderBy |-> "r.total_amount DESC", limit |-> Some(20)]
SqlLowValue ==
  [select |-> "r.id, r.total_amount, r.payment_method, v.name as vendor",
   where |-> "r.total_amount < ?", groupBy |-> "",
   orderBy |-> "r.total_amount ASC", limit |-> Some(20)]
SqlPaidCash ==
  [select |-> "r.id, r.total_amount, r.payment_method, v.name as vendor",
   where |-> "r.payment_method = 'cash'", groupBy |-> "",
   orderBy |-> "r.total_amount DESC", limit |-> Some(20)]
SqlPaidCard ==
  [select |-> "r.id, r.total_amount, r.payment_method, v.name as vendor",
   where |-> "r.payment_method = 'card'", groupBy |-> "",
   orderBy |-> "r.total_amount DESC", limit |-> Some(20)]
SqlPaymentGroups ==
  [select |-> "payment_method, COUNT(*) as count, SUM(total_amount) as total",
   where |-> "", groupBy |-> "payment_method",
   orderBy |-> "count DESC", limit |-> NoLimit]
SqlTax ==
  [select |-> "r.id, r.total_amount, r.tax_amount, v.name as vendor",
   where |-> "r.tax_amount > 0", groupBy |-> "",
   orderBy |-> "r.tax_amount DESC", limit |-> Some(20)]
SqlAudit ==
  [select |-> "r.id, r.total_amount, r.status, r.tax_amount, v.name as vendor",
   where |-> "r.status = 'flagged' OR r.tax_amount IS NULL OR r.tax_amount = 0",
   groupBy |-> "", orderBy |-> "r.total_amount DESC", limit |-> Some(20)]
SqlList ==
  [select |-> "r.id, r.total_amount, r.payment_method, r.status, v.name as vendor",
   where |-> "", groupBy |-> "", orderBy |-> "r.total_amount DESC",
   limit |-> Some(15)]
\* let sql = ''
SqlEmpty ==
  [select |-> "", where |-> "", groupBy |-> "", orderBy |-> "",
   limit |-> NoLimit]

\* the variant that writes the threshold into the query text instead of
\* binding it
ParsedInline(sql, params, intent) ==
  [sql |-> IF params = <<>> THEN sql
           ELSE [select |-> sql.select, where |-> sql.where,
                 inlined |-> params[1], groupBy |-> sql.groupBy,
                 orderBy |-> sql.orderBy, limit |-> sql.limit],
   params |-> <<>>, intent |-> intent]
Parsed(sql, params, intent) ==
  [sql |-> sql, params |-> params, intent |-> intent]

\* the variant that tests the count rule before the count-and-flagged rule
CascadeCountFirst(lowerQuery, threshold, fallback) ==
  LET isTotalQuery == Test("total_spending", lowerQuery)
      isHighValue == Test("high_value", lowerQuery)
      isLowValue == Test("low_value", lowerQuery)
      isFlagged == Test("flagged", lowerQuery)
      isPaymentQuery == Test("payment_method", lowerQuery)
      isCountQuery == Test("count", lowerQuery)
      isTaxQuery == Test("tax", lowerQuery)
      isAuditQuery == Test("audit", lowerQuery)
  IN  IF isCountQuery
        THEN Parsed(SqlCountAll, <<>>, "count_all")
      ELSE IF isCountQuery /\ isFlagged
        THEN Parsed(SqlCountFlagged, <<>>, "count_flagged")
      ELSE IF isTotalQuery /\ ~isHighValue /\ ~isLowValue
        THEN Parsed(SqlTotalSpending, <<>>, "total_spending")
      ELSE IF isFlagged
        THEN Parsed(SqlFlagged, <<>>, "flagged_receipts")
      ELSE IF isHighValue /\ TruthyNum(threshold)
        THEN Parsed(SqlHighValue, <<Val(threshold)>>, "high_value_receipts")
      ELSE IF isLowValue /\ TruthyNum(threshold)
        THEN Parsed(SqlLowValue, <<Val(threshold)>>, "low_value_receipts")
      ELSE IF isPaymentQuery
        THEN IF includes(lowerQuery, <<"c", "a", "s", "h">>)
               THEN Parsed(SqlPaidCash, <<>>, "payment_breakdown")
             ELSE IF includes(lowerQuery, <<"c", "a", "r", "d">>)
               THEN Parsed(SqlPaidCard, <<>>, "payment_breakdown")
             ELSE Parsed(SqlPaymentGroups, <<>>, "payment_breakdown")
      ELSE IF isTaxQuery
        THEN Parsed(SqlTax, <<>>, "tax_info")
      ELSE IF isAuditQuery
        THEN Parsed(SqlAudit, <<>>, "audit_findings")
      ELSE fallback
\* the cascade over the detected patterns and the extracted threshold
Cascade(lowerQuery, threshold, fallback) ==
  LET isTotalQuery == Test("total_spending", lowerQuery)
      isHighValue == Test("high_value", lowerQuery)
      isLowValue == Test("low_value", lowerQuery)
      isFlagged == Test("flagged", lowerQuery)
      isPaymentQuery == Test("payment_method", lowerQuery)
      isCountQuery == Test("count", lowerQuery)
      isTaxQuery == Test("tax", lowerQuery)
      isAuditQuery == Test("audit", lowerQuery)
  IN  IF isCountQuery /\ isFlagged
        THEN Parsed(SqlCountFlagged, <<>>, "count_flagged")
      ELSE IF isCountQuery
        THEN Parsed(SqlCountAll, <<>>, "count_all")
      ELSE IF isTotalQuery /\ ~isHighValue /\ ~isLowValue
        THEN Parsed(SqlTotalSpending, <<>>, "total_spending")
      ELSE IF isFlagged
        THEN Parsed(SqlFlagged, <<>>, "flagged_receipts")
      ELSE IF isHighValue /\ TruthyNum(threshold)
        THEN Parsed(SqlHighValue, <<Val(threshold)>>, "high_value_receipts")
      ELSE IF isLowValue /\ TruthyNum(threshold)
        THEN Parsed(SqlLowValue, <<Val(threshold)>>, "low_value_receipts")
      ELSE IF isPaymentQuery
        THEN IF includes(lowerQuery, <<"c", "a", "s", "h">>)
               THEN Parsed(SqlPaidCash, <<>>, "payment_breakdown")
             ELSE IF includes(lowerQuery, <<"c", "a", "r", "d">>)
               THEN Parsed(SqlPaidCard, <<>>, "payment_breakdown")
             ELSE Parsed(SqlPaymentGroups, <<>>, "payment_breakdown")
      ELSE IF isTaxQuery
        THEN Parsed(SqlTax, <<>>, "tax_info")
      ELSE IF isAuditQuery
        THEN Parsed(SqlAudit, <<>>, "audit_findings")
      ELSE fallback

\* the variant whose cascade has no final else: the initial values are returned
parseQueryNoDefault(q) ==
  Cascade(toLowerCase(q), extractNumber(q), Parsed(SqlEmpty, <<>>, "general"))

parseQuery(q) ==
  Cascade(toLowerCase(q), extractNumber(q),
          Parsed(SqlList, <<>>, "list_receipts"))

\* bounds of the questions: up to MaxPhrases phrases separated by blanks, and
\* the sentences of the scenarios
MaxPhrases == 2
QueryPhrases ==
  {<<"h", "o", "w", " ", "m", "a", "n", "y">>, <<"H", "o", "w", " ", "m",
      "u", "c", "h">>, <<"f", "l", "a", "g", "g", "e", "d">>, <<"a", "b",
      "o", "v", "e">>, <<"b", "e", "l", "o", "w">>,
   <<"c", "a", "s", "h">>, <<"c", "a", "r", "d">>, <<"p", "a", "y", "m", "e",
       "n", "t">>, <<"t", "a", "x">>, <<"a", "u", "d", "i", "t">>, <<"S",
       "h", "o", "w">>,
   <<"r", "e", "c", "e", "i", "p", "t", "s">>, <<"5", "0", "0", "0", "0">>,
       <<"0">>, <<"1", ",", "5", "0", "0">>}
RECURSIVE JoinPhrases(_)
JoinPhrases(ps) ==
  IF ps = <<>> THEN <<>>
  ELSE IF Len(ps) = 1 THEN ps[1]
  ELSE ps[1] \o <<" ">> \o JoinPhrases(Tail(ps))
QueryHowManyFlagged ==
  <<"h", "o", "w", " ", "m", "a", "n", "y", " ", "f", "l", "a", "g", "g",
      "e", "d", " ", "r", "e", "c", "e", "i", "p", "t", "s", " ", "a", "r",
      "e", " ", "t", "h", "e", "r", "e">>
QueryShowAbove ==
  <<"S", "h", "o", "w", " ", "r", "e", "c", "e", "i", "p", "t", "s", " ",
      "a", "b", "o", "v", "e", " ", "5", "0", "0", "0", "0">>
QuerySpendOnFlagged ==
  <<"h", "o", "w", " ", "m", "u", "c", "h", " ", "d", "i", "d", " ", "w",
      "e", " ", "s", "p", "e", "n", "d", " ", "o", "n", " ", "f", "l", "a",
      "g", "g", "e", "d", " ", "r", "e", "c", "e", "i", "p", "t", "s">>
Queries ==
  {JoinPhrases(ps) : ps \in SeqsUpTo(QueryPhrases, MaxPhrases)}
    \cup {QueryHowManyFlagged, QueryShowAbove, QuerySpendOnFlagged}

InitQuery ==
  /\ pc = "call"
  /\ query \in Queries
  /\ parsed = Absent /\ rawResponse = Absent
  /\ priceStr = Absent /\ price = Absent
  /\ result = Absent /\ errors = <<>>
  /\ gtParse = Absent /\ extraction = Absent
  /\ IdleStore

CallParseQuery ==
  /\ pc = "call"
  /\ parsed' = Some(parseQuery(query))
  /\ pc' = "done"
  /\ UNCHANGED <<priceStr, price, result, errors, gtParse, extraction, query,
                 rawResponse>>
  /\ UNCHANGED storeVars

NextQuery == CallParseQuery
SpecQuery == InitQuery /\ [][NextQuery]_vars

----------------------------------------------------------------------------
(* C10 *)

\* the labels of the ten intents; high_value and low_value are labelled
\* high_value_receipts and low_value_receipts
IntentLabels ==
  {"total_spending", "count_all", "count_flagged", "flagged_receipts",
   "high_value_receipts", "low_value_receipts", "payment_breakdown",
   "tax_info", "audit_findings", "list_receipts"}

\* the patterns the classification looks at
IntentPatterns ==
  {"count", "total_spending", "high_value", "low_value", "flagged",
   "payment_method", "tax", "audit"}

SqlTemplates ==
  {SqlCountFlagged, SqlCountAll, SqlTotalSpending, SqlFlagged, SqlHighValue,
   SqlLowValue, SqlPaidCash, SqlPaidCard, SqlPaymentGroups, SqlTax, SqlAudit,
   SqlList}

\* C10: parseQuery is total: for every text it returns one intent of the fixed
\* enumeration together with a query, and list_receipts (with the default
\* listing) whenever none of the intent patterns matches the text.
C10_TotalClassification ==
  pc = "done" =>
    /\ IsPresent(parsed)
    /\ Val(parsed).intent \in IntentLabels
    /\ Val(parsed).sql \in SqlTemplates
    /\ (\A label \in IntentPatterns : ~Test(label, query)) =>
          /\ Val(parsed).intent = "list_receipts"
          /\ Val(parsed).sql = SqlList

\* a text in which no pattern matches
C10_Witness ==
  /\ pc = "done"
  /\ query = <<"r", "e", "c", "e", "i", "p", "t", "s">>
  /\ \A label \in IntentPatterns : ~Test(label, query)
  /\ Val(parsed).intent = "list_receipts"

----------------------------------------------------------------------------
(* C11, C12, C13 *)

\* a non-zero threshold was extracted from the text
HasThreshold(q) ==
  IsPresent(extractNumber(q)) /\ Val(extractNumber(q)) # 0

\* the rules in their order: when each applies and the intent it gives
PriorityRules(q) ==
  <<[applies |-> Test("count", q) /\ Test("flagged", q),
     intent |-> "count_flagged"],
    [applies |-> Test("count", q), intent |-> "count_all"],
    [applies |-> /\ Test("total_spending", q)
                 /\ ~Test("high_value", q) /\ ~Test("low_value", q),
     intent |-> "total_spending"],
    [applies |-> Test("flagged", q), intent |-> "flagged_receipts"],
    [applies |-> Test("high_value", q) /\ HasThreshold(q),
     intent |-> "high_value_receipts"],
    [applies |-> Test("low_value", q) /\ HasThreshold(q),
     intent |-> "low_value_receipts"],
    [applies |-> Test("payment_method", q), intent |-> "payment_breakdown"],
    [applies |-> Test("tax", q), intent |-> "tax_info"],
    [applies |-> Test("audit", q), intent |-> "audit_findings"],
    [applies |-> TRUE, intent |-> "list_receipts"]>>

FirstApplicable(rules) ==
  rules[CHOOSE i \in 1..Len(rules) :
          rules[i].applies /\ \A j \in 1..(i - 1) : ~rules[j].applies]

C12_FlaggedNotTotalSpending ==
  (pc = "done" /\ query = QuerySpendOnFlagged) =>
    /\ Val(parsed).intent # "total_spending"
    /\ Val(parsed).sql.where \in {SqlFlagged.where, SqlCountFlagged.where}

\* the words the payment rule looks for in the text
PaymentWords == {<<"c", "a", "s", "h">>, <<"c", "a", "r", "d">>}

\* what the classification reads of a text: the patterns that match it and
\* the payment words it contains
Matches(q) ==
  [patterns |-> {label \in IntentPatterns : Test(label, q)},
   words |-> {w \in PaymentWords : includes(toLowerCase(q), w)}]

\* of every question: what it matches, whether it carries a threshold, and
\* the query text parseQuery gives it
QueryTexts ==
  {[matches |-> Matches(q), threshold |-> HasThreshold(q),
    sql |-> parseQuery(q).sql] : q \in Queries}

ThresholdIntents == {"high_value_receipts", "low_value_receipts"}

\* C13 as stated: the query text is one of the fixed templates, two questions
\* with the same pattern matches and the same cash/card words get the same
\* query text whatever else they contain, and the parameter list is
\* non-empty exactly for high_value and low_value.
C13_Original ==
  pc = "done" =>
    /\ Val(parsed).sql \in SqlTemplates
    /\ LET matches == Matches(query)
       IN  \A other \in QueryTexts :
             other.matches = matches => other.sql = Val(parsed).sql
    /\ Val(parsed).params # <<>> <=> Val(parsed).intent \in ThresholdIntents

\* C13: the query text is always one of the fixed templates and contains no
\* part of the question: two questions with the same pattern matches, the
\* same cash/card words and the same presence of a non-zero threshold get
\* the identical query text, and the threshold is found in the parameter
\* list only, which holds it alone for high_value and low_value and is
\* empty for every other intent.
C13_FixedTemplates ==
  pc = "done" =>
    /\ Val(parsed).sql \in SqlTemplates
    /\ LET matches == Matches(query)
           threshold == HasThreshold(query)
       IN  \A other \in QueryTexts :
             (other.matches = matches /\ other.threshold = threshold)
               => other.sql = Val(parsed).sql
    /\ Val(parsed).params =
         IF Val(parsed).intent \in ThresholdIntents
         THEN <<Val(extractNumber(query))>> ELSE <<>>

\* 'Show receipts above 50000' and 'above 1,500' match the same patterns and
\* both carry a threshold: the same text with different parameters
C13_Witness ==
  /\ pc = "done"
  /\ query = QueryShowAbove
  /\ LET other == JoinPhrases(<<<<"a", "b", "o", "v", "e">>,
                                <<"1", ",", "5", "0", "0">>>>)
     IN  /\ other \in Queries
         /\ Matches(other) = Matches(query)
         /\ parseQuery(other).sql = Val(parsed).sql
         /\ parseQuery(other).params = <<1500>>
  /\ Val(parsed).params = <<50000>>

----------------------------------------------------------------------------
(* The store: tables vendors, receipts and line_items, in insertion order.  *)
(* The columns kept are the ones some modelled code reads; identifiers are  *)
(* pairs <<kind, number>>, a fresh number standing for a fresh uuidv4().    *)

NoRequest == [route |-> "none"]
NoResponse == [status |-> 0]

Uuid(kind, n) == <<kind, n>>

\* statements.getVendorByName.get(name): the first row with that name
\* the variant that never finds a vendor
getVendorByNameNone(vs, name) == Absent

getVendorByName(vs, name) ==
  IF \E i \in 1..Len(vs) : vs[i].name = name
  THEN Some(vs[CHOOSE i \in 1..Len(vs) :
                 vs[i].name = name /\ \A j \in 1..(i - 1) : vs[j].name # name])
  ELSE Absent

\* receipts.id is the primary key
HasReceipt(rs, id) == \E i \in 1..Len(rs) : rs[i].id = id

\* value || 0 on an optional number
OrZero(o) == IF TruthyNum(o) THEN Val(o) ELSE 0
\* value || null on an optional name
NameOrNull(o) == IF TruthyName(o) THEN o ELSE Absent

----------------------------------------------------------------------------
(* POST /api/receipts *)

\* the statements of the transaction bind without throwing: total_amount and
\* line_items.name / total_price are NOT NULL, and a missing key binds
\* undefined, which the driver refuses
BodyBinds(body) ==
  /\ IsPresent(body.receipt.totalAmount)
  /\ \A i \in 1..Len(body.items) :
       /\ IsPresent(body.items[i].name)
       /\ IsPresent(body.items[i].totalPrice)
       /\ \A j \in 1..Len(body.items[i].subItems) :
            /\ IsPresent(body.items[i].subItems[j].name)
            /\ IsPresent(body.items[i].subItems[j].totalPrice)

\* an item or sub-item whose insert binds
ItemBinds(item) == IsPresent(item.name) /\ IsPresent(item.totalPrice)
\* the number of sub-items inserted before the first that throws
SubItemsBound(item) ==
  CHOOSE k \in 0..Len(item.subItems) :
    /\ \A j \in 1..k : ItemBinds(item.subItems[j])
    /\ k = Len(item.subItems) \/ ~ItemBinds(item.subItems[k + 1])

\* the line_items rows of one item and of its sub-items, ids from n on, up
\* to the first insert that throws
PostItemRows(item, receiptId, n) ==
  <<[id |-> Uuid("uuid", n), receipt_id |-> receiptId,
     name |-> Val(item.name), total_price |-> Val(item.totalPrice),
     parent_item_id |-> Absent, is_sub_item |-> 0]>>
  \o [j \in 1..SubItemsBound(item) |->
        [id |-> Uuid("uuid", n + j), receipt_id |-> receiptId,
         name |-> Val(item.subItems[j].name),
         total_price |-> Val(item.subItems[j].totalPrice),
         parent_item_id |-> Some(Uuid("uuid", n)), is_sub_item |-> 1]]

\* the rows the loop over the items inserts, up to the first insert that
\* throws
RECURSIVE PostLineItems(_, _, _)
PostLineItems(items, receiptId, n) ==
  IF items = <<>> \/ ~ItemBinds(items[1]) THEN <<>>
  ELSE PostItemRows(items[1], receiptId, n)
         \o IF SubItemsBound(items[1]) < Len(items[1].subItems) THEN <<>>
            ELSE PostLineItems(Tail(items), receiptId,
                               n + 1 + Len(items[1].subItems))

\* the variant that runs the statements outside a transaction
transactionNoRollback(before, tried, threw) == tried
\* db.transaction(fn)(): what fn wrote, or the store as it was when fn threw
transaction(before, tried, threw) == IF threw THEN before ELSE tried

\* vendor?.name, when it is truthy
PostVendorName(body) ==
  IF TruthyName(Field(body.vendor, "name"))
  THEN Field(body.vendor, "name") ELSE Absent

PostReceipts(body) ==
  LET name == PostVendorName(body)
      existingVendor ==
        IF IsPresent(name) THEN getVendorByName(vendors, Val(name)) ELSE Absent
      createsVendor == IsPresent(name) /\ ~IsPresent(existingVendor)
      vendorId ==
        IF ~IsPresent(name) THEN Absent
        ELSE IF IsPresent(existingVendor) THEN Some(Val(existingVendor).id)
        ELSE Some(Uuid("uuid", nextId))
      n == IF createsVendor THEN nextId + 1 ELSE nextId
      receiptId == Uuid("uuid", n)
      rows == PostLineItems(body.items, receiptId, n + 1)
      before == [vendors |-> vendors, receipts |-> receipts,
                 line_items |-> line_items]
      withVendor ==
        [before EXCEPT !.vendors =
           IF createsVendor
           THEN Append(vendors,
                  [id |-> Val(vendorId), name |-> Val(name),
                   address |-> NameOrNull(Val(body.vendor).address)])
           ELSE vendors]
      \* what the statements wrote when the callback returned or threw
      tried ==
        IF ~IsPresent(body.receipt.totalAmount) THEN withVendor
        ELSE [withVendor EXCEPT
                !.receipts =
                   Append(receipts,
                     [id |-> receiptId, vendor_id |-> vendorId,
                      subtotal |-> OrZero(body.receipt.subtotal),
                      tax_amount |-> OrZero(body.receipt.taxAmount),
                      total_amount |-> Val(body.receipt.totalAmount),
                      payment_method |-> body.receipt.paymentMethod,
                      status |-> "pending"]),
                !.line_items = line_items \o rows]
      kept == transaction(before, tried, ~BodyBinds(body))
  IN  /\ request' = [route |-> "POST /api/receipts", body |-> body]
      /\ vendors' = kept.vendors
      /\ receipts' = kept.receipts
      /\ line_items' = kept.line_items
      /\ IF BodyBinds(body)
         THEN /\ nextId' = n + 1 + Len(rows)
              /\ response' = [status |-> 200, success |-> TRUE,
                              receipt |-> receiptId]
         ELSE \* the catch of the handler answers
              /\ UNCHANGED nextId
              /\ response' = [status |-> 500,
                              error |-> "Failed to create receipt"]

----------------------------------------------------------------------------
(* PUT /api/receipts/[id] *)

\* UPDATE receipts SET status = ? WHERE id = ?
updateReceiptStatus(rs, status, id) ==
  [i \in 1..Len(rs) |->
     IF rs[i].id = id THEN [rs[i] EXCEPT !.status = status] ELSE rs[i]]

PutReceipt(id, status) ==
  /\ request' = [route |-> "PUT /api/receipts/[id]", id |-> id,
                 status |-> status]
  /\ receipts' = IF TruthyName(status)
                 THEN updateReceiptStatus(receipts, Val(status), id)
                 ELSE receipts
  /\ response' = [status |-> 200, success |-> TRUE]
  /\ UNCHANGED <<vendors, line_items, nextId>>

----------------------------------------------------------------------------
(* POST /api/seed *)

SeedError(rec, err) == [id |-> rec.receipt.id, err |-> err]

\* step 3 of a record: its line items, up to the first one that throws
RECURSIVE SeedLineItems(_, _, _)
SeedLineItems(items, receiptId, st) ==
  IF items = <<>> THEN st
  ELSE IF ~IsPresent(items[1].name)
    THEN [st EXCEPT !.thrown = Some("NOT NULL constraint failed: line_items.name")]
  ELSE SeedLineItems(Tail(items), receiptId,
         [st EXCEPT
            !.line_items =
               Append(@, [id |-> Uuid("item", st.nextId),
                          receipt_id |-> receiptId,
                          name |-> Val(items[1].name),
                          total_price |-> OrZero(items[1].total_price),
                          parent_item_id |-> Absent, is_sub_item |-> 0]),
            !.nextId = @ + 1,
            !.itemsCreated = @ + 1])

\* step 1 of a record: get or create its vendor; the id is left in vendorId
SeedVendor(rec, st) ==
  LET vendorName == IF TruthyName(Val(rec.vendor).name)
                    THEN Val(Val(rec.vendor).name) ELSE "Unknown Vendor"
      existingVendor == getVendorByName(st.vendors, vendorName)
  IN  IF \E p \in st.vendorMap : p[1] = vendorName
      THEN [st EXCEPT !.vendorId =
              (CHOOSE p \in st.vendorMap : p[1] = vendorName)[2]]
      ELSE IF IsPresent(existingVendor)
      THEN [st EXCEPT !.vendorId = Val(existingVendor).id,
                      !.vendorMap = @ \cup {<<vendorName, Val(existingVendor).id>>}]
      ELSE [st EXCEPT
              !.vendors = Append(@, [id |-> Uuid("vendor", st.nextId),
                                     name |-> vendorName,
                                     address |-> Val(rec.vendor).address]),
              !.nextId = @ + 1,
              !.vendorsCreated = @ + 1,
              !.vendorId = Uuid("vendor", st.nextId),
              !.vendorMap = @ \cup {<<vendorName, Uuid("vendor", st.nextId)>>}]

\* step 2 of a record: its receipt row
SeedReceipt(rec, st) ==
  IF HasReceipt(st.receipts, rec.receipt.id)
  THEN [st EXCEPT !.thrown = Some("UNIQUE constraint failed: receipts.id")]
  ELSE [st EXCEPT
          !.receipts =
             Append(@, [id |-> rec.receipt.id,
                        vendor_id |-> Some(st.vendorId),
                        subtotal |-> OrZero(rec.receipt.subtotal),
                        tax_amount |-> OrZero(rec.receipt.tax_amount),
                        total_amount |-> OrZero(rec.receipt.total_amount),
                        payment_method |-> rec.receipt.payment_method,
                        status |-> IF rec.receipt.has_error
                                   THEN "flagged" ELSE "verified"]),
          !.receiptsCreated = @ + 1]

\* the body of the loop: try { 1, 2, 3 } catch (err) { errors.push(...) }
SeedRecord(rec, st) ==
  LET tried ==
        IF ~IsPresent(rec.vendor)
        THEN [st EXCEPT !.thrown = Some("TypeError: Cannot read properties of null")]
        ELSE LET s1 == SeedVendor(rec, st)
                 s2 == SeedReceipt(rec, s1)
             IN  IF IsPresent(s2.thrown) THEN s2
                 ELSE SeedLineItems(rec.items, rec.receipt.id, s2)
  IN  IF ~IsPresent(tried.thrown) THEN tried
      \* the catch block reads cordReceipt.receipt.id and throws itself when
      \* the record has no receipt object
      ELSE IF "receipt" \notin DOMAIN rec
      THEN [tried EXCEPT !.thrown =
              Some("TypeError: Cannot read properties of undefined")]
      ELSE [tried EXCEPT !.errors = Append(@, SeedError(rec, Val(tried.thrown))),
                         !.thrown = Absent]

RECURSIVE SeedRecords(_, _)
SeedRecords(batch, st) ==
  IF batch = <<>> THEN st
  ELSE LET next == SeedRecord(batch[1], st)
       \* what the catch block itself throws leaves the loop
       IN  IF IsPresent(next.thrown) THEN next
           ELSE SeedRecords(Tail(batch), next)

\* the handler; file is the parsed content of data/cord_receipts.json, absent
\* when the file does not exist
SeedDatabase(file) ==
  /\ request' = [route |-> "POST /api/seed", file |-> file]
  /\ IF ~IsPresent(file)
     THEN /\ response' = [status |-> 404,
                          error |-> "cord_receipts.json not found"]
          /\ UNCHANGED <<vendors, receipts, line_items, nextId>>
     ELSE LET st0 == [vendors |-> vendors, receipts |-> receipts,
                      line_items |-> line_items, nextId |-> nextId,
                      vendorMap |-> {}, vendorId |-> Uuid("vendor", 0),
                      vendorsCreated |-> 0, receiptsCreated |-> 0,
                      itemsCreated |-> 0, errors |-> <<>>,
                      thrown |-> Absent]
              st == SeedRecords(Val(file), st0)
          IN  IF IsPresent(st.thrown)
              \* the transaction rolls back and the outer catch answers
              THEN /\ response' = [status |-> 500,
                                   error |-> "Failed to seed database"]
                   /\ UNCHANGED <<vendors, receipts, line_items, nextId>>
              ELSE /\ vendors' = st.vendors
                   /\ receipts' = st.receipts
                   /\ line_items' = st.line_items
                   /\ nextId' = st.nextId
                   /\ response' =
                        [status |-> 200, success |-> TRUE,
                         stats |-> [vendorsCreated |-> st.vendorsCreated,
                                    receiptsCreated |-> st.receiptsCreated,
                                    itemsCreated |-> st.itemsCreated,
                                    totalRecordsProcessed |-> Len(Val(file))],
                         errors |-> st.errors]

----------------------------------------------------------------------------
(* The ingestion system: records are assembled, posted, seeded and their  *)
(* status is updated, in any order.                                        *)

\* bounds
MaxReceipts == 2
MaxBatch == 2

\* ground-truth records a client assembles and posts
StoreMenu ==
  Some(<<CordMenuItem(Some(<<"5", "0">>), <<>>)>>)
StoreTotal(t) ==
  Some([total_price |-> Some(t), cashprice |-> Some(<<"5", "0">>),
        creditcardprice |-> Absent, changeprice |-> Absent,
        menutype_cnt |-> Absent, menuqty_cnt |-> Absent])
StoreGtParses ==
  [menu : {StoreMenu}, sub_total : {Absent},
   total : {StoreTotal(<<"5", "0">>), StoreTotal(<<"1", ",", "5", "0", "0">>)},
   store_info : {Absent} \cup
     {Some([name |-> n, addr |-> Some("Jl. 1"), tel |-> Absent,
            biznum |-> Absent]) : n \in {Some(""), Some("Toko A")}}]

\* the request bodies of POST /api/receipts: a body carries an optional name
\* and total price per item
AsBody(data) ==
  [vendor |-> IF IsPresent(data.vendor)
              THEN Some([name |-> Some(Val(data.vendor).name),
                         address |-> Val(data.vendor).address])
              ELSE Absent,
   receipt |-> data.receipt,
   items |-> [i \in 1..Len(data.items) |->
                [name |-> Some(data.items[i].name),
                 totalPrice |-> Some(data.items[i].totalPrice),
                 subItems |-> [j \in 1..Len(data.items[i].subItems) |->
                    [name |-> Some(data.items[i].subItems[j].name),
                     totalPrice |-> Some(data.items[i].subItems[j].totalPrice)]]]]]

\* bodies written by hand: a vendor object with an empty name, a body
\* whose second item has no price, a body whose second sub-item has no
\* name, and a body without total
RawReceipt(total) ==
  [subtotal |-> Absent, taxAmount |-> Absent, totalAmount |-> total,
   paymentMethod |-> "cash"]
RawBodies ==
  {[vendor |-> Some([name |-> Some(""), address |-> Some("Jl. 2")]),
    receipt |-> RawReceipt(Some(50)),
    items |-> <<[name |-> Some("Teh"), totalPrice |-> Some(50),
                 subItems |-> <<>>]>>],
   [vendor |-> Some([name |-> Some("Toko B"), address |-> Absent]),
    receipt |-> RawReceipt(Some(50)),
    items |-> <<[name |-> Some("Teh"), totalPrice |-> Some(50),
                 subItems |-> <<>>],
                [name |-> Some("Kopi"), totalPrice |-> Absent,
                 subItems |-> <<>>]>>],
   [vendor |-> Some([name |-> Some("Toko D"), address |-> Absent]),
    receipt |-> RawReceipt(Some(50)),
    items |-> <<[name |-> Some("Teh"), totalPrice |-> Some(50),
                 subItems |-> <<[name |-> Some("Es"),
                                 totalPrice |-> Some(5)],
                                [name |-> Absent,
                                 totalPrice |-> Some(5)]>>]>>],
   [vendor |-> Absent,
    receipt |-> RawReceipt(Absent),
    items |-> <<>>]}

\* the records of data/cord_receipts.json
SeedItem(name) == [name |-> name, total_price |-> Some(50)]
SeedRecordOf(vendor, id, hasError, items) ==
  [vendor |-> vendor,
   receipt |-> [id |-> id, subtotal |-> Absent, tax_amount |-> Absent,
                total_amount |-> Some(50), payment_method |-> "cash",
                has_error |-> hasError],
   items |-> items]
SeedFileRecords ==
  {SeedRecordOf(Some([name |-> Some("Toko A"), address |-> Some("Jl. 3")]),
                Uuid("cord", 1), FALSE, <<SeedItem(Some("Teh"))>>),
   SeedRecordOf(Some([name |-> Absent, address |-> Absent]),
                Uuid("cord", 2), TRUE, <<SeedItem(Some("Teh"))>>),
   SeedRecordOf(Some([name |-> Some("Toko C"), address |-> Absent]),
                Uuid("cord", 2), FALSE,
                <<SeedItem(Some("Teh")), SeedItem(Absent)>>),
   SeedRecordOf(Absent, Uuid("cord", 1), FALSE, <<SeedItem(Some("Teh"))>>),
   \* an element of the file that is not a record: no vendor, no receipt
   [vendor |-> Absent, items |-> <<>>]}
SeedFiles ==
  {Absent} \cup {Some(b) : b \in SeqsUpTo(SeedFileRecords, MaxBatch)}

PutStatuses == {Absent, Some("pending"), Some("verified"), Some("flagged")}
ReceiptIds == {receipts[i].id : i \in 1..Len(receipts)}

PostBodies ==
  RawBodies \cup {AsBody(cordToExtractionResult(g)) : g \in StoreGtParses}

Init ==
  /\ pc = "idle"
  /\ IdlePure
  /\ vendors = <<>> /\ receipts = <<>> /\ line_items = <<>>
  /\ nextId = 1
  /\ request = NoRequest
  /\ response = NoResponse
  /\ chat_history = <<>> /\ inflight = <<>>

HandlePostReceipts ==
  /\ Len(receipts) < MaxReceipts
  /\ \E body \in PostBodies : PostReceipts(body)
  /\ UNCHANGED pureVars
  /\ UNCHANGED chatVars

HandleSeed ==
  /\ \E file \in SeedFiles :
       /\ IsPresent(file) => Len(receipts) + Len(Val(file)) <= MaxReceipts
       /\ SeedDatabase(file)
  /\ UNCHANGED pureVars
  /\ UNCHANGED chatVars

HandlePutReceipt ==
  /\ \E id \in ReceiptIds \cup {Uuid("uuid", 0)}, status \in PutStatuses :
       PutReceipt(id, status)
  /\ UNCHANGED pureVars
  /\ UNCHANGED chatVars

Next ==
  \/ HandlePostReceipts
  \/ HandleSeed
  \/ HandlePutReceipt

Spec == Init /\ [][Next]_vars

----------------------------------------------------------------------------
(* The assembly pipeline: a ground-truth record is converted and the        *)
(* result is posted to /api/receipts, one record after the other.           *)

IngestGtParses ==
  [menu : {Absent, StoreMenu}, sub_total : {Absent},
   total : {StoreTotal(<<"5", "0">>), StoreTotal(<<"1", ",", "5", "0", "0">>)},
   store_info : CordStoreInfos \cup
     {Some([name |-> Some("Toko B"), addr |-> Absent, tel |-> Absent,
            biznum |-> Absent])}]

InitIngest ==
  /\ pc = "call"
  /\ gtParse \in IngestGtParses
  /\ extraction = Absent
  /\ priceStr = Absent /\ price = Absent
  /\ result = Absent /\ errors = <<>>
  /\ query = <<>> /\ parsed = Absent /\ rawResponse = Absent
  /\ IdleStore

PostAssembled ==
  /\ pc = "done"
  /\ PostReceipts(AsBody(Val(extraction)))
  /\ pc' = "posted"
  /\ UNCHANGED <<priceStr, price, result, errors, gtParse, extraction, query,
                 parsed, rawResponse>>
  /\ UNCHANGED chatVars

NextRecord ==
  /\ pc = "posted"
  /\ Len(receipts) < MaxReceipts
  /\ gtParse' \in IngestGtParses
  /\ extraction' = Absent
  /\ pc' = "call"
  /\ UNCHANGED <<priceStr, price, result, errors, query, parsed, rawResponse>>
  /\ UNCHANGED storeVars

NextIngest ==
  \/ CallCordToExtractionResult
  \/ PostAssembled
  \/ NextRecord

SpecIngest == InitIngest /\ [][NextIngest]_vars

----------------------------------------------------------------------------
(* Running a query against the store: db.prepare(sql).all(...params).      *)
(* A result row is a record of the selected columns; a column that may be  *)
(* NULL holds an optional value.                                            *)

\* v.name of the LEFT JOIN: NULL when the receipt has no vendor row
VendorName(vs, vendor_id) ==
  IF IsPresent(vendor_id) /\ \E i \in 1..Len(vs) : vs[i].id = Val(vendor_id)
  THEN Some(vs[CHOOSE i \in 1..Len(vs) : vs[i].id = Val(vendor_id)].name)
  ELSE Absent

\* the WHERE clauses of the statements, on a row of receipts
Where(clause, params, r) ==
  CASE clause = "" -> TRUE
    [] clause = "status = 'flagged'" -> r.status = "flagged"
    [] clause = "r.status = 'flagged'" -> r.status = "flagged"
    [] clause = "r.total_amount > ?" -> r.total_amount > params[1]
    [] clause = "r.total_amount < ?" -> r.total_amount < params[1]
    [] clause = "r.payment_method = 'cash'" -> r.payment_method = "cash"
    [] clause = "r.payment_method = 'card'" -> r.payment_method = "card"
    [] clause = "r.payment_method = ?" -> r.payment_method = params[1]
    [] clause = "r.tax_amount > 0" -> r.tax_amount > 0
    [] clause = "r.status = 'flagged' OR r.tax_amount IS NULL OR r.tax_amount = 0"
         -> r.status = "flagged" \/ r.tax_amount = 0

\* ORDER BY: the column and the direction
OrderKey(clause, row) ==
  CASE clause \in {"r.total_amount DESC", "r.total_amount ASC"}
         -> row.total_amount
    [] clause = "r.tax_amount DESC" -> row.tax_amount
    [] clause = "count DESC" -> row.count
Descending(clause) == clause # "r.total_amount ASC"

\* rows with equal keys keep the order of the table
RECURSIVE InsertOrdered(_, _, _)
InsertOrdered(row, sorted, clause) ==
  IF sorted = <<>> THEN <<row>>
  ELSE IF (IF Descending(clause)
           THEN OrderKey(clause, row) > OrderKey(clause, sorted[1])
           ELSE OrderKey(clause, row) < OrderKey(clause, sorted[1]))
    THEN <<row>> \o sorted
  ELSE <<sorted[1]>> \o InsertOrdered(row, Tail(sorted), clause)

RECURSIVE OrderBy(_, _)
OrderBy(rows, clause) ==
  IF clause = "" \/ rows = <<>> THEN rows
  ELSE InsertOrdered(rows[Len(rows)],
                     OrderBy(SubSeq(rows, 1, Len(rows) - 1), clause), clause)

\* LIMIT n, and Array.prototype.slice(0, n)
slice(rows, n) == SubSeq(rows, 1, IF Len(rows) < n THEN Len(rows) ELSE n)
Limit(rows, limit) == IF IsPresent(limit) THEN slice(rows, Val(limit)) ELSE rows

\* the columns of the listing statements
Columns(select) ==
  CASE select = "r.id, r.total_amount, r.status, v.name as vendor"
         -> {"id", "total_amount", "status", "vendor"}
    [] select = "r.id, r.total_amount, r.payment_method, v.name as vendor"
         -> {"id", "total_amount", "payment_method", "vendor"}
    [] select = "r.id, r.total_amount, r.tax_amount, v.name as vendor"
         -> {"id", "total_amount", "tax_amount", "vendor"}
    [] select = "r.id, r.total_amount, r.status, r.tax_amount, v.name as vendor"
         -> {"id", "total_amount", "status", "tax_amount", "vendor"}
    [] select = "r.id, r.total_amount, r.payment_method, r.status, v.name as vendor"
         -> {"id", "total_amount", "payment_method", "status", "vendor"}
    [] select = "r.id, r.total_amount, r.tax_amount, r.payment_method, r.status, v.name as vendor"
         -> {"id", "total_amount", "tax_amount", "payment_method", "status",
             "vendor"}
    [] select = "*"
         -> {"id", "vendor_id", "subtotal", "tax_amount", "total_amount",
             "payment_method", "status"}

Project(r, select, vs) ==
  [c \in Columns(select) |->
     IF c = "vendor" THEN VendorName(vs, r.vendor_id) ELSE r[c]]

RECURSIVE SumColumn(_, _)
SumColumn(rows, c) ==
  IF rows = <<>> THEN 0 ELSE rows[1][c] + SumColumn(Tail(rows), c)

\* SUM(column): NULL over no rows
Sum(rows, c) == IF rows = <<>> THEN Absent ELSE Some(SumColumn(rows, c))
\* AVG(column): NULL over no rows, else the quotient, kept as a fraction
Avg(rows, c) ==
  IF rows = <<>> THEN Absent
  ELSE Some([num |-> SumColumn(rows, c), den |-> Len(rows)])

AggregateSelects ==
  {"COUNT(*) as count", "COUNT(*) as count, SUM(total_amount) as total",
   "COUNT(*) as receipt_count, SUM(total_amount) as total_spent, SUM(tax_amount) as total_tax, AVG(total_amount) as avg_receipt"}

\* the one row of a statement of aggregates without GROUP BY
Aggregate(select, rows) ==
  CASE select = "COUNT(*) as count" -> [count |-> Len(rows)]
    [] select = "COUNT(*) as count, SUM(total_amount) as total"
         -> [count |-> Len(rows), total |-> Sum(rows, "total_amount")]
    [] select = "COUNT(*) as receipt_count, SUM(total_amount) as total_spent, SUM(tax_amount) as total_tax, AVG(total_amount) as avg_receipt"
         -> [receipt_count |-> Len(rows),
             total_spent |-> Sum(rows, "total_amount"),
             total_tax |-> Sum(rows, "tax_amount"),
             avg_receipt |-> Avg(rows, "total_amount")]

\* GROUP BY payment_method: one row per method, in the order the methods
\* first occur
RECURSIVE GroupByPaymentMethod(_)
GroupByPaymentMethod(rows) ==
  IF rows = <<>> THEN <<>>
  ELSE LET method == rows[1].payment_method
           same == SelectSeq(rows, LAMBDA r : r.payment_method = method)
           rest == SelectSeq(rows, LAMBDA r : r.payment_method # method)
       IN  <<[payment_method |-> method, count |-> Len(same),
              total |-> Sum(same, "total_amount")]>>
             \o GroupByPaymentMethod(rest)

\* stmt.all(...params) on the tables rs (receipts) and vs (vendors)
All(sql, params, rs, vs) ==
  LET kept == SelectSeq(rs, LAMBDA r : Where(sql.where, params, r))
  IN  IF sql.groupBy # ""
        THEN Limit(OrderBy(GroupByPaymentMethod(kept), sql.orderBy), sql.limit)
      ELSE IF sql.select \in AggregateSelects
        THEN <<Aggregate(sql.select, kept)>>
      ELSE LET ordered == Limit(OrderBy(kept, sql.orderBy), sql.limit)
           IN  [i \in 1..Len(ordered) |-> Project(ordered[i], sql.select, vs)]

----------------------------------------------------------------------------
(* The rule-based formatter: generateResponse.  A message is the headline  *)
(* of its template, the values interpolated into the headline, the lines   *)
(* written for the rows, and the count of the rows left out.               *)

Message(head, fields, lines, more) ==
  [head |-> head, fields |-> fields, lines |-> lines, more |-> more]

\* `${n}` of an integer
RECURSIVE GroupThousands(_)
GroupThousands(digits) ==
  IF Len(digits) <= 3 THEN digits
  ELSE GroupThousands(SubSeq(digits, 1, Len(digits) - 3))
         \o <<",">> \o SubSeq(digits, Len(digits) - 2, Len(digits))
toString(n) == IF n < 0 THEN <<"-">> \o ToDigits(0 - n) ELSE ToDigits(n)
\* n.toLocaleString('en-US') of an integer
toLocaleString(n) ==
  IF n < 0 THEN <<"-">> \o GroupThousands(ToDigits(0 - n))
  ELSE GroupThousands(ToDigits(n))

\* formatAmount = (n) => n?.toLocaleString('en-US') ?? '0'
formatAmount(n) == IF IsPresent(n) THEN toLocaleString(Val(n)) ELSE <<"0">>

\* Math.round of an optional fraction; null rounds to 0
round(avg) ==
  IF IsPresent(avg)
  THEN (2 * Val(avg).num + Val(avg).den) \div (2 * Val(avg).den)
  ELSE 0

\* r.<column>, undefined when the row has no such column
Column(row, c) == IF c \in DOMAIN row THEN Some(row[c]) ELSE Absent
\* r.id is truthy
HasId(row) == "id" \in DOMAIN row
\* r.payment_method || fallback
MethodOr(row, fallback) ==
  IF TruthyName(Column(row, "payment_method"))
  THEN row.payment_method ELSE fallback
\* String.prototype.toUpperCase on the names of the payment methods
toUpperCase(method) ==
  CASE method = "cash" -> "CASH"
    [] method = "card" -> "CARD"
    [] method = "e-money" -> "E-MONEY"
    [] method = "mixed" -> "MIXED"
    [] method = "other" -> "OTHER"
    [] method = "unknown" -> "UNKNOWN"
    [] method = "Unknown" -> "UNKNOWN"

NoResults == "I couldn't find any receipts matching your query."

\* the lines of a listing
Lines(rows, Line(_)) == [i \in 1..Len(rows) |-> Line(rows[i])]
AmountLine(r) == <<r.id, formatAmount(Some(r.total_amount))>>
MethodLine(r) ==
  <<r.id, formatAmount(Some(r.total_amount)), MethodOr(r, "unknown")>>

\* the variant without the test for an empty result: a heading with the
\* number of rows, whatever it is
generateResponseNoEmptyCase(intent, results, q) ==
  Message("Receipts", <<toString(Len(results))>>, <<>>, Absent)

generateResponse(intent, results, q) ==
  IF Len(results) = 0 THEN Message(NoResults, <<>>, <<>>, Absent)
  ELSE CASE intent = "total_spending" ->
         LET r == results[1]
         IN  Message("Spending Summary",
               <<toString(r.receipt_count), formatAmount(r.total_spent),
                 formatAmount(r.total_tax),
                 formatAmount(Some(round(r.avg_receipt)))>>, <<>>, Absent)
    [] intent = "count_all" ->
         LET r == results[1]
         IN  Message("You have",
               <<toString(r.count), formatAmount(r.total)>>, <<>>, Absent)
    [] intent = "count_flagged" ->
         Message("There are", <<toString(results[1].count)>>, <<>>, Absent)
    [] intent = "flagged_receipts" ->
         Message("Flagged Receipts", <<toString(Len(results))>>,
                 Lines(results, AmountLine), Absent)
    [] intent = "high_value_receipts" ->
         Message("High Value Receipts",
                 <<formatAmount(extractNumber(q)), toString(Len(results))>>,
                 Lines(slice(results, 10), MethodLine),
                 IF Len(results) > 10 THEN Some(Len(results) - 10)
                 ELSE Absent)
    [] intent = "low_value_receipts" ->
         Message("Low Value Receipts",
                 <<formatAmount(extractNumber(q)), toString(Len(results))>>,
                 Lines(slice(results, 10), MethodLine), Absent)
    [] intent = "payment_breakdown" ->
         IF HasId(results[1])
         THEN Message("Payments",
                <<toUpperCase(MethodOr(results[1], "Unknown")),
                  toString(Len(results)),
                  formatAmount(Some(SumColumn(results, "total_amount")))>>,
                Lines(slice(results, 10), AmountLine), Absent)
         ELSE Message("Payment Method Breakdown", <<>>,
                Lines(results,
                      LAMBDA r : <<MethodOr(r, "Unknown"), toString(r.count),
                                   formatAmount(r.total)>>), Absent)
    [] intent = "tax_info" ->
         Message("Receipts with Tax/VAT",
                 <<toString(Len(results)),
                   formatAmount(Some(SumColumn(results, "tax_amount")))>>,
                 Lines(slice(results, 10),
                       LAMBDA r : <<r.id, formatAmount(Some(r.tax_amount)),
                                    formatAmount(Some(r.total_amount))>>),
                 Absent)
    [] intent = "audit_findings" ->
         LET flagged == SelectSeq(results, LAMBDA r : r.status = "flagged")
             noTax == SelectSeq(results, LAMBDA r : r.tax_amount = 0)
         IN  Message("Audit Findings", <<toString(Len(results))>>,
               (IF Len(flagged) > 0
                THEN <<<<"Flagged (mismatch)", toString(Len(flagged))>>>>
                       \o Lines(slice(flagged, 5), AmountLine)
                ELSE <<>>)
               \o (IF Len(noTax) > 0
                   THEN <<<<"Missing VAT", toString(Len(noTax))>>>>
                          \o Lines(slice(noTax, 5), AmountLine)
                   ELSE <<>>),
               Absent)
    [] OTHER ->
         Message("Receipts", <<toString(Len(slice(results, 15)))>>,
                 Lines(slice(results, 15),
                       LAMBDA r : <<Column(r, "status") = Some("flagged"),
                                    r.id,
                                    formatAmount(Some(r.total_amount)),
                                    MethodOr(r, "unknown")>>), Absent)

----------------------------------------------------------------------------
(* The model endpoint (Ollama), as the routes see one call of it *)

\* what a call of fetch(OLLAMA_URL/api/generate) meets: no connection, a
\* non-success status, a body that is not JSON, a JSON body with or without
\* the response field, or an endpoint that keeps the call open
Unreachable == [kind |-> "unreachable"]
NonSuccess == [kind |-> "status"]
NotJson == [kind |-> "not json"]
Answer(text) == [kind |-> "answer", response |-> text]
Silent == [kind |-> "silent"]

\* the call settles: fetch resolves or rejects
Settles(endpoint) == endpoint.kind # "silent"
\* await fetch(...) throws, or response.ok is false, or response.json() throws
Fails(endpoint) == endpoint.kind \in {"unreachable", "status", "not json"}

----------------------------------------------------------------------------
(* POST /api/auditor/sql: generateSQL, the statement, formatAnswer *)

WhiteSpace == {" ", "\n", "\t", "\r"}
\* String.prototype.trim
RECURSIVE trimStart(_)
trimStart(s) ==
  IF s # <<>> /\ s[1] \in WhiteSpace THEN trimStart(Tail(s)) ELSE s
RECURSIVE trimEnd(_)
trimEnd(s) ==
  IF s # <<>> /\ s[Len(s)] \in WhiteSpace
  THEN trimEnd(SubSeq(s, 1, Len(s) - 1)) ELSE s
trim(s) == trimEnd(trimStart(s))

\* s.replace(/pattern/gi, ''), the pattern a literal in lower case
RECURSIVE removeAll(_, _)
removeAll(s, pattern) ==
  IF Len(s) < Len(pattern) THEN s
  ELSE IF toLowerCase(SubSeq(s, 1, Len(pattern))) = pattern
    THEN removeAll(SubSeq(s, Len(pattern) + 1, Len(s)), pattern)
  ELSE <<s[1]>> \o removeAll(Tail(s), pattern)

startsWith(s, prefix) ==
  Len(s) >= Len(prefix) /\ SubSeq(s, 1, Len(prefix)) = prefix

\* the character of the code fences, which a string of this language
\* cannot hold
Backtick == "BACKTICK"

\* the two replace calls that remove the fence markers (with and without
\* the word sql), and trim()
stripFences(sql) ==
  trim(removeAll(removeAll(sql, <<Backtick, Backtick, Backtick, "s", "q", "l">>), <<Backtick, Backtick, Backtick>>))

\* the variant that looks for the word anywhere in the text
acceptsSqlAnywhere(sql) == includes(toLowerCase(sql), <<"s", "e", "l", "e",
    "c", "t">>)

\* the basic validation: sql.toLowerCase().startsWith('select')
acceptsSql(sql) == startsWith(toLowerCase(sql), <<"s", "e", "l", "e", "c",
    "t">>)

\* generateSQL, when its call has settled: the statement, or null
generateSQL(endpoint) ==
  IF Fails(endpoint) THEN Absent
  ELSE LET text == IF IsPresent(endpoint.response)
                   THEN trim(Val(endpoint.response)) ELSE <<>>
           sql == stripFences(text)
       IN  IF acceptsSql(sql) THEN Some(sql) ELSE Absent

\* the statements the store is asked to run on this route; the store reads
\* key words and names without regard to case
SelectAllReceipts == <<"s", "e", "l", "e", "c", "t", " ", "*", " ", "f", "r",
    "o", "m", " ", "r", "e", "c", "e", "i", "p", "t", "s">>
SelectCountReceipts == <<"s", "e", "l", "e", "c", "t", " ", "c", "o", "u",
    "n", "t", "(", "*", ")", " ", "a", "s", " ", "c", "o", "u", "n", "t",
    " ", "f", "r", "o", "m", " ", "r", "e", "c", "e", "i", "p", "t", "s">>
SelectVendorNames == <<"s", "e", "l", "e", "c", "t", " ", "n", "a", "m", "e",
    " ", "f", "r", "o", "m", " ", "v", "e", "n", "d", "o", "r", "s">>

SqlAllReceipts ==
  [select |-> "*", where |-> "", groupBy |-> "", orderBy |-> "",
   limit |-> NoLimit]

\* what the store throws for a statement it refuses
sqlError(sql) == <<"SqliteError", sql>>

\* the variant in which the store answers a statement it cannot run with
\* no rows
prepareAllNoRows(sql, rs, vs) == Some(<<>>)

\* db.prepare(sql).all(): the rows, or nothing when the store throws
prepareAll(sql, rs, vs) ==
  LET statement == toLowerCase(sql)
  IN  IF statement = SelectAllReceipts
        THEN Some(All(SqlAllReceipts, <<>>, rs, vs))
      ELSE IF statement = SelectCountReceipts
        THEN Some(All([SqlCountFlagged EXCEPT !.where = ""], <<>>, rs, vs))
      ELSE IF statement = SelectVendorNames
        THEN Some([i \in 1..Len(vs) |-> [name |-> vs[i].name]])
      ELSE Absent

\* the text the model wrote, as a message
ModelMessage(text) == Message("(written by the model)", <<text>>, <<>>, Absent)

\* typeof value === 'number', of the columns of the rows of this route
NumberColumns == {"count", "subtotal", "tax_amount", "total_amount"}

\* the fallback formatter of this route
formatFallback(results) ==
  IF Len(results) = 0 THEN Message("No results found.", <<>>, <<>>, Absent)
  ELSE IF /\ Len(results) = 1
          /\ DOMAIN results[1] \cap {"count", "total", "sum"} # {}
    THEN Message("Results:", <<>>,
           <<[key \in DOMAIN results[1] |->
                IF key \in NumberColumns
                THEN toLocaleString(results[1][key]) ELSE results[1][key]]>>,
           Absent)
  ELSE Message("Found results", <<toString(Len(results))>>,
         Lines(slice(results, 10),
               LAMBDA r :
                 IF HasId(r)
                 THEN <<r.id, IF TruthyNum(Column(r, "total_amount"))
                              THEN toLocaleString(r.total_amount)
                              ELSE <<>>>>
                 ELSE <<r>>),
         IF Len(results) > 10 THEN Some(Len(results) - 10) ELSE Absent)

\* the variant that gives up when its call fails
formatAnswerGivesUp(results, endpoint) ==
  IF ~Fails(endpoint) /\ IsPresent(endpoint.response)
     /\ trim(Val(endpoint.response)) # <<>>
    THEN ModelMessage(trim(Val(endpoint.response)))
  ELSE Message("Unable to format response.", <<>>, <<>>, Absent)

\* formatAnswer, when its call has settled
formatAnswer(results, endpoint) ==
  IF Fails(endpoint) THEN formatFallback(results)
  ELSE IF IsPresent(endpoint.response) /\ trim(Val(endpoint.response)) # <<>>
    THEN ModelMessage(trim(Val(endpoint.response)))
  ELSE Message("Unable to format response.", <<>>, <<>>, Absent)

\* r.id && r.id.startsWith('cord_'): an identifier is a kind and a number,
\* the kind standing for the text in front
IsCordId(row) == HasId(row) /\ row.id[1] = "cord"

Ids(rows) == [i \in 1..Len(rows) |-> rows[i].id]

----------------------------------------------------------------------------
(* POST /api/auditor/llm: getRelevantReceipts, callOllama and the fallback *)

\* QUERY_PATTERNS of this route
LlmQueryPatterns ==
  [total_spending |-> QUERY_PATTERNS.total_spending,
   high_value |-> QUERY_PATTERNS.high_value \cup {<<"b", "i", "g">>},
   low_value |-> QUERY_PATTERNS.low_value \cup {<<"s", "m", "a", "l", "l">>},
   flagged |-> QUERY_PATTERNS.flagged \cup {<<"r", "e", "v", "i", "e", "w">>},
   payment_method |-> QUERY_PATTERNS.payment_method \cup {<<"p", "a", "i",
       "d">>},
   count |-> QUERY_PATTERNS.count,
   tax |-> QUERY_PATTERNS.tax,
   audit |-> QUERY_PATTERNS.audit \cup {<<"c", "h", "e", "c", "k">>},
   summary |-> {<<"s", "u", "m", "m", "a", "r", "y">>, <<"o", "v", "e", "r",
       "v", "i", "e", "w">>, <<"r", "e", "p", "o", "r", "t">>, <<"d", "a",
       "s", "h", "b", "o", "a", "r", "d">>,
                <<"s", "t", "a", "t", "s">>}]

LlmTest(label, s) ==
  \E word \in LlmQueryPatterns[label] : includes(toLowerCase(s), word)

RelevantSelect ==
  "r.id, r.total_amount, r.tax_amount, r.payment_method, r.status, v.name as vendor"
Relevant(where, orderBy, limit) ==
  [select |-> RelevantSelect, where |-> where, groupBy |-> "",
   orderBy |-> orderBy, limit |-> Some(limit)]

\* the method named in the text
NamedMethod(lowerQuery) ==
  IF includes(lowerQuery, <<"c", "a", "s", "h">>) THEN "cash"
  ELSE IF includes(lowerQuery, <<"c", "a", "r", "d">>) THEN "card"
  ELSE IF includes(lowerQuery, <<"e", "-", "m", "o", "n", "e",
      "y">>) THEN "e-money"
  ELSE "unknown"

getRelevantReceipts(q, rs, vs) ==
  LET lowerQuery == toLowerCase(q)
      threshold == extractNumber(q)
  IN  IF LlmTest("flagged", lowerQuery)
        THEN All(Relevant("r.status = 'flagged'", "r.total_amount DESC", 10),
                 <<>>, rs, vs)
      ELSE IF LlmTest("high_value", lowerQuery) /\ TruthyNum(threshold)
        THEN All(Relevant("r.total_amount > ?", "r.total_amount DESC", 15),
                 <<Val(threshold)>>, rs, vs)
      ELSE IF LlmTest("low_value", lowerQuery) /\ TruthyNum(threshold)
        THEN All(Relevant("r.total_amount < ?", "r.total_amount ASC", 15),
                 <<Val(threshold)>>, rs, vs)
      ELSE IF /\ LlmTest("payment_method", lowerQuery)
              /\ NamedMethod(lowerQuery) # "unknown"
        THEN All(Relevant("r.payment_method = ?", "r.total_amount DESC", 15),
                 <<NamedMethod(lowerQuery)>>, rs, vs)
      ELSE IF LlmTest("tax", lowerQuery)
        THEN All(Relevant("r.tax_amount > 0", "r.tax_amount DESC", 15),
                 <<>>, rs, vs)
      ELSE All(Relevant("", "r.total_amount DESC", 10), <<>>, rs, vs)

\* callOllama, when its call has settled: the text, or null
callOllama(endpoint) ==
  IF Fails(endpoint) THEN Absent
  ELSE IF TruthyStr(endpoint.response)
    THEN Some(ModelMessage(Val(endpoint.response)))
  ELSE Some(Message("Unable to generate response.", <<>>, <<>>, Absent))

generateFallbackResponse(q, rows, rs, vs) ==
  LET lowerQuery == toLowerCase(q)
  IN  IF LlmTest("summary", lowerQuery)
         \/ LlmTest("total_spending", lowerQuery)
        THEN LET stats ==
                   All([SqlCountAll EXCEPT !.select = "COUNT(*) as receipt_count, SUM(total_amount) as total_spent, SUM(tax_amount) as total_tax, AVG(total_amount) as avg_receipt"],
                       <<>>, rs, vs)[1]
             IN  Message("Spending Summary",
                   <<toString(stats.receipt_count),
                     formatAmount(stats.total_spent),
                     formatAmount(stats.total_tax),
                     formatAmount(Some(round(stats.avg_receipt)))>>,
                   <<>>, Absent)
      ELSE IF LlmTest("flagged", lowerQuery)
        THEN IF Len(rows) = 0
             THEN Message("No flagged receipts found. All receipts are verified!",
                          <<>>, <<>>, Absent)
             ELSE Message("Flagged Receipts", <<toString(Len(rows))>>,
                          Lines(rows, AmountLine), Absent)
      ELSE IF LlmTest("high_value", lowerQuery)
        THEN Message("High Value Receipts",
               <<formatAmount(extractNumber(q))>>,
               IF Len(rows) = 0
               THEN <<<<"No receipts found above this threshold.">>>>
               ELSE Lines(slice(rows, 10), MethodLine), Absent)
      ELSE Message("Receipt Results", <<toString(Len(rows))>>,
             Lines(slice(rows, 10),
                   LAMBDA r : <<r.status = "flagged", r.id,
                                formatAmount(Some(r.total_amount))>>),
             Absent)

----------------------------------------------------------------------------
(* The three query routes.  A request that is suspended at a call of the   *)
(* model waits in inflight with what its handler holds at that point; when *)
(* a handler returns, request gets the request together with the calls it  *)
(* made and the statements it ran, and response gets what it returned.     *)

\* const { message, sessionId = uuidv4() } = body
SessionOf(body, n) ==
  IF IsPresent(body.sessionId) THEN Val(body.sessionId) ELSE Uuid("uuid", n)
AfterSession(body, n) == IF IsPresent(body.sessionId) THEN n ELSE n + 1

\* the variant that writes only the reply
ChatRowsReplyOnly(sessionId, message, answer, referenced, n) ==
  <<[id |-> Uuid("msg", n + 1), session_id |-> sessionId,
     role |-> "assistant", content |-> answer,
     referenced_receipts |-> Some(referenced)]>>

\* the two insertChatMessage calls of an answered request
ChatRows(sessionId, message, answer, referenced, n) ==
  <<[id |-> Uuid("msg", n), session_id |-> sessionId, role |-> "user",
     content |-> message, referenced_receipts |-> Absent],
    [id |-> Uuid("msg", n + 1), session_id |-> sessionId,
     role |-> "assistant", content |-> answer,
     referenced_receipts |-> Some(referenced)]>>

\* created_at DATETIME DEFAULT CURRENT_TIMESTAMP: the readings the clock of
\* the store can show at an insertion, in ticks of one second; it shows 1 at
\* the first insertion and does not run backwards
MaxTicks == 2
CURRENT_TIMESTAMP ==
  IF chat_history = <<>> THEN {1}
  ELSE LET latest == chat_history[Len(chat_history)].created_at
       IN  {t \in {latest, latest + 1} : t <= MaxTicks}
\* the rows as the store keeps them, the inserts of one request running
\* within one tick
Inserted(rows, now) ==
  [i \in 1..Len(rows) |->
     [id |-> rows[i].id, session_id |-> rows[i].session_id,
      role |-> rows[i].role, content |-> rows[i].content,
      referenced_receipts |-> rows[i].referenced_receipts,
      created_at |-> now]]

\* a call of the model endpoint and what it met
Called(call, endpoint) == [call |-> call, endpoint |-> endpoint]

\* a handled request: its body, the calls it made of the model endpoint,
\* the statements it ran against the store and the rows it got
Handled(route, body, calls, executed, results) ==
  [route |-> route, body |-> body, calls |-> calls, executed |-> executed,
   results |-> results]

\* the variant that logs the request before it looks at the message
MessageRequiredLogged(route, body) ==
  /\ request' = Handled(route, body, <<>>, <<>>, <<>>)
  /\ response' = [status |-> 400, error |-> "Message is required"]
  /\ chat_history' =
       Append(chat_history,
              [id |-> Uuid("msg", nextId),
               session_id |-> SessionOf(body, nextId), role |-> "user",
               content |-> body.message, referenced_receipts |-> Absent,
               created_at |-> 1])
  /\ UNCHANGED <<nextId, inflight>>

\* if (!message) return 400
MessageRequired(route, body) ==
  /\ request' = Handled(route, body, <<>>, <<>>, <<>>)
  /\ response' = [status |-> 400, error |-> "Message is required"]
  /\ UNCHANGED <<chat_history, nextId, inflight>>

RemoveAt(s, i) == SubSeq(s, 1, i - 1) \o SubSeq(s, i + 1, Len(s))

\* results.filter(r => r.id).map(r => r.id).slice(0, 20)
referencedReceipts(results) == slice(Ids(SelectSeq(results, HasId)), 20)
\* the same with the filter of the sql route
referencedCordReceipts(results) ==
  slice(Ids(SelectSeq(results, IsCordId)), 20)

\* a message of the body that is not a string (a number, an object): it is
\* truthy and has no toLowerCase
NonText == <<"[object Object]">>

\* the catch of the rule-based route: parseQuery or the query threw
ProcessingFailed(route, body) ==
  /\ request' = Handled(route, body, <<>>, <<>>, <<>>)
  /\ response' = [status |-> 500, error |-> "Failed to process chat"]
  /\ UNCHANGED <<chat_history, nextId, inflight>>

\* POST /api/auditor: the rule-based route
AuditorPost(body) ==
  /\ IF ~TruthyStr(body.message)
     THEN MessageRequired("POST /api/auditor", body)
     ELSE IF Val(body.message) = NonText
     THEN ProcessingFailed("POST /api/auditor", body)
     ELSE LET message == Val(body.message)
              sessionId == SessionOf(body, nextId)
              n == AfterSession(body, nextId)
              p == parseQuery(message)
              results == All(p.sql, p.params, receipts, vendors)
              text == generateResponse(p.intent, results, message)
              referenced == referencedReceipts(results)
          IN  /\ request' = Handled("POST /api/auditor", body, <<>>,
                                    <<p.sql>>, results)
              /\ \E now \in CURRENT_TIMESTAMP :
                   chat_history' =
                     chat_history
                       \o Inserted(ChatRows(sessionId, message, text,
                                            referenced, n), now)
              /\ nextId' = n + 2
              /\ response' = [status |-> 200, sessionId |-> sessionId,
                              message |-> text, intent |-> p.intent,
                              referencedReceipts |-> referenced,
                              resultCount |-> Len(results)]
              /\ UNCHANGED inflight
  /\ UNCHANGED <<vendors, receipts, line_items>>

Apology ==
  "I couldn't understand that question. Try asking about spending totals, flagged receipts, or payment methods."

\* POST /api/auditor/sql up to its first await: the call of generateSQL is
\* sent to an endpoint that behaves as given
SqlPost(body, endpoint) ==
  /\ IF ~TruthyStr(body.message)
     THEN MessageRequired("POST /api/auditor/sql", body)
     ELSE /\ inflight' =
               Append(inflight,
                 [route |-> "POST /api/auditor/sql", body |-> body,
                  sessionId |-> SessionOf(body, nextId),
                  call |-> "generateSQL", endpoint |-> endpoint,
                  calls |-> <<Called("generateSQL", endpoint)>>, executed |-> <<>>,
                  sql |-> Absent, results |-> <<>>])
          /\ nextId' = AfterSession(body, nextId)
          /\ UNCHANGED <<request, response, chat_history>>
  /\ UNCHANGED <<vendors, receipts, line_items>>

\* the same route from the return of generateSQL to its next await or to its
\* return; endpoints are the behaviours the call of formatAnswer may meet
SqlGenerated(i, endpoints) ==
  LET ctx == inflight[i]
      sql == generateSQL(ctx.endpoint)
      rows == prepareAll(Val(sql), receipts, vendors)
  IN  /\ ctx.call = "generateSQL"
      /\ Settles(ctx.endpoint)
      /\ IF ~IsPresent(sql)
         THEN /\ request' = Handled(ctx.route, ctx.body, ctx.calls, <<>>, <<>>)
              /\ response' =
                   [status |-> 200, sessionId |-> ctx.sessionId,
                    message |-> Message(Apology, <<>>, <<>>, Absent),
                    sql |-> Absent,
                    error |-> "Could not generate SQL - is Ollama running?"]
              /\ inflight' = RemoveAt(inflight, i)
         ELSE IF ~IsPresent(rows)
         THEN /\ request' = Handled(ctx.route, ctx.body, ctx.calls,
                                    <<Val(sql)>>, <<>>)
              /\ response' =
                   [status |-> 400, sessionId |-> ctx.sessionId,
                    message |-> Message("SQL error: ",
                                        <<sqlError(Val(sql))>>, <<>>, Absent),
                    sql |-> sql, error |-> "SQL execution failed"]
              /\ inflight' = RemoveAt(inflight, i)
         ELSE /\ \E next \in endpoints :
                   inflight' =
                     [inflight EXCEPT ![i] =
                        [ctx EXCEPT !.call = "formatAnswer",
                                    !.endpoint = next,
                                    !.calls =
                                      Append(@, Called("formatAnswer", next)),
                                    !.executed = <<Val(sql)>>,
                                    !.sql = sql,
                                    !.results = Val(rows)]]
              /\ UNCHANGED <<request, response>>
      /\ UNCHANGED <<chat_history, nextId, vendors, receipts, line_items>>

\* the same route from the return of formatAnswer to its return
SqlFormatted(i) ==
  LET ctx == inflight[i]
      answer == formatAnswer(ctx.results, ctx.endpoint)
      referenced == referencedCordReceipts(ctx.results)
  IN  /\ ctx.call = "formatAnswer"
      /\ Settles(ctx.endpoint)
      /\ \E now \in CURRENT_TIMESTAMP :
           chat_history' =
             chat_history
               \o Inserted(ChatRows(ctx.sessionId, Val(ctx.body.message),
                                    answer, referenced, nextId), now)
      /\ nextId' = nextId + 2
      /\ request' = Handled(ctx.route, ctx.body, ctx.calls, ctx.executed,
                            ctx.results)
      /\ response' = [status |-> 200, sessionId |-> ctx.sessionId,
                      message |-> answer, sql |-> ctx.sql,
                      referencedReceipts |-> referenced,
                      resultCount |-> Len(ctx.results)]
      /\ inflight' = RemoveAt(inflight, i)
      /\ UNCHANGED <<vendors, receipts, line_items>>

\* the end of POST /api/auditor/llm, from the text chosen to the return
LlmRespond(route, body, sessionId, calls, results, text, usedOllama, n) ==
  LET referenced == slice(Ids(results), 20)
  IN  /\ \E now \in CURRENT_TIMESTAMP :
           chat_history' =
             chat_history
               \o Inserted(ChatRows(sessionId, Val(body.message), text,
                                    referenced, n), now)
      /\ nextId' = n + 2
      /\ request' = Handled(route, body, calls, <<"getRelevantReceipts">>,
                            results)
      /\ response' = [status |-> 200, sessionId |-> sessionId,
                      message |-> text, referencedReceipts |-> referenced,
                      resultCount |-> Len(results), usedLLM |-> usedOllama]

\* POST /api/auditor/llm up to its await, or to its return when useOllama
\* is false
LlmPost(body, endpoint) ==
  /\ IF ~TruthyStr(body.message)
     THEN MessageRequired("POST /api/auditor/llm", body)
     ELSE LET message == Val(body.message)
              relevant == getRelevantReceipts(message, receipts, vendors)
              useOllama == IF IsPresent(body.useOllama)
                           THEN Val(body.useOllama) ELSE TRUE
          IN  IF useOllama
              THEN /\ inflight' =
                        Append(inflight,
                          [route |-> "POST /api/auditor/llm", body |-> body,
                           sessionId |-> SessionOf(body, nextId),
                           call |-> "callOllama", endpoint |-> endpoint,
                           calls |-> <<Called("callOllama", endpoint)>>,
                           executed |-> <<"getRelevantReceipts">>,
                           sql |-> Absent, results |-> relevant])
                   /\ nextId' = AfterSession(body, nextId)
                   /\ UNCHANGED <<request, response, chat_history>>
              ELSE /\ LlmRespond("POST /api/auditor/llm", body,
                        SessionOf(body, nextId), <<>>, relevant,
                        generateFallbackResponse(message, relevant, receipts,
                                                 vendors),
                        FALSE, AfterSession(body, nextId))
                   /\ UNCHANGED inflight
  /\ UNCHANGED <<vendors, receipts, line_items>>

\* the same route from the return of callOllama to its return
LlmAnswered(i) ==
  LET ctx == inflight[i]
      ollamaResponse == callOllama(ctx.endpoint)
  IN  /\ ctx.call = "callOllama"
      /\ Settles(ctx.endpoint)
      /\ LlmRespond(ctx.route, ctx.body, ctx.sessionId, ctx.calls,
           ctx.results,
           IF IsPresent(ollamaResponse) THEN Val(ollamaResponse)
           ELSE generateFallbackResponse(Val(ctx.body.message), ctx.results,
                                         receipts, vendors),
           IsPresent(ollamaResponse), nextId)
      /\ inflight' = RemoveAt(inflight, i)
      /\ UNCHANGED <<vendors, receipts, line_items>>

----------------------------------------------------------------------------
(* The query system: the store is seeded and a receipt is created, then    *)
(* questions are asked on the three routes, one request at a time, until   *)
(* one is answered.                                                         *)

\* the largest number of records of a seeded file
MaxRows == 21

\* record i of a seeded file: amounts 100 * i, every third with tax, paid in
\* turn by cash and by card, flagged when odd (or all of them)
ChatSeedRecord(i, allFlagged) ==
  [vendor |-> Some([name |-> Some(IF i % 2 = 0 THEN "Toko A" ELSE "Toko B"),
                    address |-> Absent]),
   receipt |-> [id |-> Uuid("cord", i), subtotal |-> Absent,
                tax_amount |-> IF i % 3 = 0 THEN Some(10) ELSE Absent,
                total_amount |-> Some(100 * i),
                payment_method |-> IF i % 2 = 0 THEN "cash" ELSE "card",
                has_error |-> allFlagged \/ i % 2 = 1],
   items |-> <<SeedItem(Some("Teh"))>>]
ChatSeedFiles ==
  {[i \in 1..n |-> ChatSeedRecord(i, allFlagged)] :
     n \in {1, 2, MaxRows - 1, MaxRows}, allFlagged \in BOOLEAN}

\* the body of the receipt created through POST /api/receipts
ChatPostBody ==
  [vendor |-> Some([name |-> Some("Toko B"), address |-> Absent]),
   receipt |-> [subtotal |-> Absent, taxAmount |-> Absent,
                totalAmount |-> Some(1800), paymentMethod |-> "cash"],
   items |-> <<[name |-> Some("Teh"), totalPrice |-> Some(50),
                subItems |-> <<>>]>>]

\* the questions
ChatMessages ==
  {QueryHowManyFlagged, <<"h", "o", "w", " ", "m", "a", "n", "y">>, <<"H",
      "o", "w", " ", "m", "u", "c", "h">>, <<"f", "l", "a", "g", "g", "e",
      "d">>,
   <<"a", "b", "o", "v", "e", " ", "1", ",", "5", "0", "0">>, QueryShowAbove,
       <<"b", "e", "l", "o", "w", " ", "1", ",", "5", "0", "0">>, <<"c", "a",
       "s", "h">>, <<"c", "a", "r", "d">>,
   <<"p", "a", "y", "m", "e", "n", "t">>, <<"t", "a", "x">>, <<"a", "u", "d",
       "i", "t">>, <<"r", "e", "c", "e", "i", "p", "t", "s">>}
ChatSessions == {Absent, Some(Uuid("session", 1))}
ChatBody(message, sessionId, useOllama) ==
  [message |-> message, sessionId |-> sessionId, useOllama |-> useOllama]
\* a body without a message, one with an empty message, and every question
AuditorBodies ==
  {ChatBody(Absent, Absent, Absent), ChatBody(Some(<<>>), Absent, Absent)}
    \cup {ChatBody(Some(m), s, Absent) : m \in ChatMessages, s \in ChatSessions}
SqlBodies ==
  {ChatBody(Absent, Absent, Absent),
   ChatBody(Some(<<"l", "i", "s", "t", " ", "e", "v", "e", "r", "y", "t",
       "h", "i", "n", "g">>), Absent, Absent)}
LlmBodies ==
  {ChatBody(Absent, Absent, Absent)}
    \cup {ChatBody(Some(m), Absent, u) :
            m \in {<<"H", "o", "w", " ", "m", "u", "c", "h">>, <<"f", "l",
                "a", "g", "g", "e", "d">>, <<"a", "b", "o", "v", "e", " ",
                "1", ",", "5", "0", "0">>, <<"c", "a", "s", "h">>,
                   <<"t", "a", "x">>, <<"r", "e", "c", "e", "i", "p", "t",
                       "s">>},
            u \in {Absent, Some(FALSE)}}

\* what the model writes when it is asked for a statement
SqlAnswers ==
  {Absent,
   Some(<<"S", "E", "L", "E", "C", "T", " ", "*", " ", "F", "R", "O", "M",
       " ", "r", "e", "c", "e", "i", "p", "t", "s">>),
   Some(<<Backtick, Backtick, Backtick, "s", "q", "l", "\n", "s", "e", "l", "e", "c", "t", " ", "*", " ", "f", "r", "o", "m", " ", "r", "e", "c", "e", "i", "p", "t", "s", "\n", Backtick, Backtick, Backtick>>),
   Some(<<" ", " ", "S", "e", "l", "e", "c", "t", " ", "C", "O", "U", "N",
       "T", "(", "*", ")", " ", "a", "s", " ", "c", "o", "u", "n", "t", " ",
       "F", "R", "O", "M", " ", "r", "e", "c", "e", "i", "p", "t", "s",
       "\n">>),
   Some(<<"S", "E", "L", "E", "C", "T", " ", "n", "a", "m", "e", " ", "F",
       "R", "O", "M", " ", "v", "e", "n", "d", "o", "r", "s">>),
   Some(<<"S", "E", "L", "E", "C", "T", " ", "x", " ", "F", "R", "O", "M",
       " ", "n", "o", "w", "h", "e", "r", "e">>),
   Some(<<"I", " ", "c", "a", "n", "n", "o", "t", " ", "h", "e", "l", "p",
       " ", "w", "i", "t", "h", " ", "t", "h", "a", "t">>),
   Some(<<"H", "e", "r", "e", ":", " ", "S", "E", "L", "E", "C", "T", " ",
       "*", " ", "F", "R", "O", "M", " ", "r", "e", "c", "e", "i", "p", "t",
       "s">>)}
\* and when it is asked for an answer
TextAnswers == {Absent, Some(<<>>), Some(<<"D", "o", "n", "e", ".">>)}

Failures == {Unreachable, NonSuccess, NotJson}
SqlEndpoints == Failures \cup {Silent} \cup {Answer(t) : t \in SqlAnswers}
TextEndpoints == Failures \cup {Silent} \cup {Answer(t) : t \in TextAnswers}

\* one question is asked, of a store that has been filled
Asking ==
  /\ inflight = <<>>
  /\ chat_history = <<>>
  /\ request.route \in {"none", "POST /api/seed", "POST /api/receipts"}

ChatSeed ==
  /\ request = NoRequest
  /\ \E file \in ChatSeedFiles : SeedDatabase(Some(file))
  /\ UNCHANGED pureVars
  /\ UNCHANGED chatVars

ChatCreate ==
  /\ request.route \in {"none", "POST /api/seed"}
  /\ PostReceipts(ChatPostBody)
  /\ UNCHANGED pureVars
  /\ UNCHANGED chatVars

AskAuditor ==
  /\ Asking
  /\ \E body \in AuditorBodies : AuditorPost(body)
  /\ UNCHANGED pureVars

AskSql ==
  /\ Asking
  /\ \E body \in SqlBodies, endpoint \in SqlEndpoints : SqlPost(body, endpoint)
  /\ UNCHANGED pureVars

ResumeSqlGenerated ==
  /\ \E i \in DOMAIN inflight : SqlGenerated(i, TextEndpoints)
  /\ UNCHANGED pureVars

ResumeSqlFormatted ==
  /\ \E i \in DOMAIN inflight : SqlFormatted(i)
  /\ UNCHANGED pureVars

AskLlm ==
  /\ Asking
  /\ \E body \in LlmBodies, endpoint \in TextEndpoints : LlmPost(body, endpoint)
  /\ UNCHANGED pureVars

ResumeLlmAnswered ==
  /\ \E i \in DOMAIN inflight : LlmAnswered(i)
  /\ UNCHANGED pureVars

NextChat ==
  \/ ChatSeed
  \/ ChatCreate
  \/ AskAuditor
  \/ AskSql
  \/ ResumeSqlGenerated
  \/ ResumeSqlFormatted
  \/ AskLlm
  \/ ResumeLlmAnswered

SpecChat == Init /\ [][NextChat]_vars

----------------------------------------------------------------------------
(* C14 *)

\* a statement that returns one row per receipt
Listing(sql) == sql.select \notin AggregateSelects /\ sql.groupBy = ""
Answered(route) == request.route = route /\ response.status = 200

\* C14: every listing statement that parseQuery writes carries a row cap,
\* so for every listing intent and every store content the result set
\* never has more than 20 rows.
C14_ListingCapped ==
  Answered("POST /api/auditor") /\ Listing(request.executed[1])
    => Len(request.results) <= 20

----------------------------------------------------------------------------
(* C15 *)

Intents == {PriorityRules(<<>>)[k].intent : k \in 1..10}

\* C15: on the rule-based route an empty result set is answered, for every
\* intent, by the one fixed sentence and by an empty list of references.
C15_EmptyResult ==
  Answered("POST /api/auditor") /\ request.results = <<>>
    => /\ response.message = Message(NoResults, <<>>, <<>>, Absent)
       /\ response.referencedReceipts = <<>>
       /\ \A intent \in Intents :
            generateResponse(intent, request.results,
                             Val(request.body.message))
              = response.message
C15_Witness ==
  /\ Answered("POST /api/auditor")
  /\ request.results = <<>>
  /\ receipts # <<>>
  /\ response.intent = "high_value_receipts"

----------------------------------------------------------------------------
(* C16 *)

QueryRoutes ==
  {"POST /api/auditor", "POST /api/auditor/sql", "POST /api/auditor/llm"}
\* a request that ran its query and answered with the rows
AnsweredWithRows ==
  /\ request.route \in QueryRoutes
  /\ response.status = 200
  /\ "referencedReceipts" \in DOMAIN response

\* C16: on every query route the references of the response are the
\* identifiers of the result rows that carry one, in result order, cut to
\* the first 20.
C16_ReferencedReceipts ==
  AnsweredWithRows
    => response.referencedReceipts
         = slice(Ids(SelectSeq(request.results, HasId)), 20)

----------------------------------------------------------------------------
(* C17 *)

\* the text of the model, without its fence markers, begins with select
BeginsWithSelect(endpoint) ==
  /\ endpoint.kind = "answer"
  /\ IsPresent(endpoint.response)
  /\ LET text == toLowerCase(stripFences(trim(Val(endpoint.response))))
     IN  Len(text) >= 6 /\ SubSeq(text, 1, 6) = <<"s", "e", "l", "e", "c",
         "t">>

ApologyResponse ==
  /\ response.status = 200
  /\ response.message = Message(Apology, <<>>, <<>>, Absent)
  /\ "error" \in DOMAIN response
  /\ response.sql = Absent

\* C17: on the route of generated statements the text of the model is run
\* against the store only if, without its fence markers, it begins with
\* select; after any other text, a non-success response or a network
\* failure nothing is run and the request is answered by the fixed apology
\* with an error field, in a response of status 200.
C17_OnlySelectExecuted ==
  /\ \A i \in DOMAIN inflight :
       inflight[i].executed # <<>> /\ inflight[i].call = "formatAnswer"
         => BeginsWithSelect(inflight[i].calls[1].endpoint)
  /\ request.route = "POST /api/auditor/sql" /\ request.calls # <<>>
       => IF BeginsWithSelect(request.calls[1].endpoint)
          THEN request.executed # <<>>
          ELSE request.executed = <<>> /\ ApologyResponse
C17_Witness ==
  /\ request.route = "POST /api/auditor/sql"
  /\ request.calls
       = <<Called("generateSQL", Answer(Some(<<"I", " ", "c", "a", "n", "n",
           "o", "t", " ", "h", "e", "l", "p", " ", "w", "i", "t", "h", " ",
           "t", "h", "a", "t">>)))>>
  /\ request.executed = <<>>
  /\ ApologyResponse
  /\ receipts # <<>>

----------------------------------------------------------------------------
(* C18 *)

\* no call of the model is made twice
OncePerCall(calls) ==
  \A j, k \in DOMAIN calls : calls[j].call = calls[k].call => j = k

\* the formatting call of an answered request failed
FormattingFailed ==
  /\ Answered("POST /api/auditor/sql")
  /\ Len(request.calls) = 2
  /\ Fails(request.calls[2].endpoint)
AnsweringFailed ==
  /\ Answered("POST /api/auditor/llm")
  /\ Len(request.calls) = 1
  /\ Fails(request.calls[1].endpoint)

\* C18: within one request each call of the model is attempted at most
\* once; when the formatting call fails no second call is made and the
\* answer is the one of the deterministic fallback from the same rows.
C18_NoRetry ==
  /\ \A i \in DOMAIN inflight : OncePerCall(inflight[i].calls)
  /\ request.route \in QueryRoutes => OncePerCall(request.calls)
  /\ FormattingFailed
       => response.message = formatFallback(request.results)
  /\ AnsweringFailed
       => /\ response.message
               = generateFallbackResponse(Val(request.body.message),
                                          request.results, receipts, vendors)
          /\ ~response.usedLLM
C18_Witness ==
  /\ FormattingFailed
  /\ request.calls[2] = Called("formatAnswer", NonSuccess)
  /\ Len(request.results) > 1


----------------------------------------------------------------------------
(* C19 *)

\* the handler of the request in flight can be resumed: the call it waits
\* for has settled
CanResume ==
  ENABLED (ResumeSqlGenerated \/ ResumeSqlFormatted \/ ResumeLlmAnswered)

\* C19: every query request with a message goes on to its response,
\* whatever the model endpoint does, an endpoint that never answers
\* included: no request is left waiting for a call that does not settle.
C19_EventuallyAnswered == inflight # <<>> => CanResume

----------------------------------------------------------------------------
(* C20 *)

\* the rows a table gained in a step
Gained(before, after) == SubSeq(after, Len(before) + 1, Len(after))
\* the records of a batch at the indices of S, in the order of the batch
RecordsAt(batch, S) == SelectSeq([i \in 1..Len(batch) |-> <<i, batch[i]>>],
                                 LAMBDA p : p[1] \in S)
\* the names and receipts of the line items of a sequence of indexed records
RECURSIVE ItemsOf(_)
ItemsOf(records) ==
  IF records = <<>> THEN <<>>
  ELSE [i \in 1..Len(records[1][2].items) |->
          <<records[1][2].receipt.id, records[1][2].items[i].name>>]
       \o ItemsOf(Tail(records))

\* the rows gained are those of the records at S, whole, and the records
\* outside S are the ones reported
StoredWhole(batch, S) ==
  LET stored == RecordsAt(batch, S)
      skipped == RecordsAt(batch, (1..Len(batch)) \ S)
      gained == Gained(line_items, line_items')
  IN  /\ [i \in 1..Len(skipped) |-> skipped[i][2].receipt.id]
           = [i \in 1..Len(response'.errors) |-> response'.errors[i].id]
      /\ [i \in 1..Len(stored) |-> stored[i][2].receipt.id]
           = Ids(Gained(receipts, receipts'))
      /\ ItemsOf(stored)
           = [i \in 1..Len(gained) |->
                <<gained[i].receipt_id, Some(gained[i].name)>>]
      /\ Len(Gained(vendors, vendors')) <= Len(stored)

\* a batch was seeded and answered with its statistics
Seeded == request.route = "POST /api/seed" /\ response.status = 200

\* C20: in batch seeding every record is stored whole or not at all: a
\* record that raises part-way leaves no vendor, receipt or line-item row
\* of its own behind.
C20_NoPartialRecord ==
  [][Seeded'
       => \E S \in SUBSET (1..Len(Val(request'.file))) :
            StoredWhole(Val(request'.file), S)]_vars


----------------------------------------------------------------------------
(* C6, C9 *)

\* a stored receipt as the validator sees it: its header and its top-level
\* line items
StoredResult(r) ==
  LET rows == SelectSeq(line_items,
                LAMBDA row : row.receipt_id = r.id /\ row.is_sub_item = 0)
  IN  [receipt |-> [totalAmount |-> Some(r.total_amount),
                    subtotal |-> Some(r.subtotal)],
       items |-> [i \in 1..Len(rows) |->
                    [totalPrice |-> rows[i].total_price, subItems |-> <<>>]]]

\* the reconciliation check of section 4.3 fails
CheckFails(r) ==
  Reported(ErrItemsSum, validateExtractionResult(StoredResult(r)))

\* C6: after any sequence of receipt creations, seedings and status updates,
\* every stored receipt has status 'flagged' if and only if the validator's
\* check fails for it, and otherwise its status is 'verified' or 'pending'.
C6_FlaggedIffCheckFails ==
  \A i \in 1..Len(receipts) :
    /\ receipts[i].status = "flagged" <=> CheckFails(receipts[i])
    /\ receipts[i].status # "flagged"
         => receipts[i].status \in {"verified", "pending"}

\* the source record names its vendor
NamedSource(g) ==
  /\ IsPresent(g.store_info)
  /\ IsPresent(Val(g.store_info).name)
  /\ Val(Val(g.store_info).name) # ""

LastReceipt(rs) == rs[Len(rs)]

\* C9: the assembled receipt's vendor is non-null if and only if the source
\* record has a non-empty vendor name; posting a record without one stores
\* the receipt with a null vendor reference, creates no vendor row and
\* reports no error, and a named record's receipt references the vendor row
\* of that name.
C9_VendorOptional ==
  [][/\ pc' = "done" =>
          (IsPresent(Val(extraction').vendor) <=> NamedSource(gtParse'))
     /\ (pc' = "posted" /\ ~NamedSource(gtParse)) =>
          /\ vendors' = vendors
          /\ response'.status = 200
          /\ Len(receipts') = Len(receipts) + 1
          /\ LastReceipt(receipts').id = response'.receipt
          /\ LastReceipt(receipts').vendor_id = Absent
     /\ (pc' = "posted" /\ NamedSource(gtParse)) =>
          /\ response'.status = 200
          /\ IsPresent(LastReceipt(receipts').vendor_id)
          /\ \E i \in 1..Len(vendors') :
               /\ vendors'[i].id = Val(LastReceipt(receipts').vendor_id)
               /\ vendors'[i].name = Val(Val(gtParse.store_info).name)
    ]_vars

\* a record with an empty store name has been posted after a named one
C9_Witness ==
  /\ pc = "posted"
  /\ IsPresent(gtParse.store_info)
  /\ Val(gtParse.store_info).name = Some("")
  /\ response.status = 200
  /\ Len(receipts) = 2
  /\ Len(vendors) = 1
  /\ LastReceipt(receipts).vendor_id = Absent

----------------------------------------------------------------------------
(* C21 *)

\* the records at S are committed: each has its receipt and its line items
\* among the rows gained
Committed(batch, S) ==
  \A i \in S :
    /\ \E k \in DOMAIN receipts' :
         k > Len(receipts) /\ receipts'[k].id = batch[i].receipt.id
    /\ \A j \in DOMAIN batch[i].items :
         \E k \in DOMAIN line_items' :
           /\ k > Len(line_items)
           /\ line_items'[k].receipt_id = batch[i].receipt.id
           /\ Some(line_items'[k].name) = batch[i].items[j].name

\* C21: in batch seeding a record that raises an exception does not abort
\* the batch: it adds one entry to the error report, every other record is
\* committed and the request is answered with success and the error list.
C21_BatchGoesOn ==
  [][request'.route = "POST /api/seed" /\ IsPresent(request'.file)
       => /\ response'.status = 200
          /\ \E S \in SUBSET (1..Len(Val(request'.file))) :
               LET batch == Val(request'.file)
                   raised == RecordsAt(batch, (1..Len(batch)) \ S)
               IN  /\ [i \in 1..Len(raised) |-> raised[i][2].receipt.id]
                        = [i \in 1..Len(response'.errors) |->
                             response'.errors[i].id]
                   /\ Committed(batch, S)]_vars

----------------------------------------------------------------------------
(* C22 *)

NoSharedName(vs) ==
  \A i, j \in DOMAIN vs : vs[i].name = vs[j].name => i = j
\* the names of the vendors a request names: of the body of a creation, of
\* the records of a batch
NamedBy(req) ==
  IF req.route = "POST /api/receipts"
  THEN IF TruthyName(Field(req.body.vendor, "name"))
       THEN {<<Val(Field(req.body.vendor, "name")), "new">>} ELSE {}
  ELSE {<<IF TruthyName(Val(rec.vendor).name) THEN Val(Val(rec.vendor).name)
          ELSE "Unknown Vendor", rec.receipt.id>>
          : rec \in {r \in {Val(req.file)[k] : k \in DOMAIN Val(req.file)} :
                       "receipt" \in DOMAIN r /\ IsPresent(r.vendor)}}
\* the name of the vendor row a receipt row refers to
ReferredName(vs, r) ==
  {vs[i].name : i \in {k \in DOMAIN vs : Some(vs[k].id) = r.vendor_id}}

----------------------------------------------------------------------------
(* The chat log: questions are asked in two sessions on the three routes,  *)
(* a new one while earlier ones wait for the model.                        *)

\* the number of questions asked in a behaviour
MaxRequests == 3

SessionIds == {Uuid("session", 1), Uuid("session", 2)}
SessionBodies(message) ==
  {ChatBody(Some(message), Some(s), Absent) : s \in SessionIds}

\* questions are still to be asked
MayAsk == Len(chat_history) + 2 * Len(inflight) < 2 * MaxRequests

SessionAuditor ==
  /\ MayAsk
  /\ \E body \in SessionBodies(<<"f", "l", "a", "g", "g", "e", "d">>)
                  \cup {ChatBody(Some(NonText), Absent, Absent)} :
       AuditorPost(body)
  /\ UNCHANGED pureVars

SessionSql ==
  /\ MayAsk
  /\ \E body \in SessionBodies(<<"l", "i", "s", "t", " ", "e", "v", "e", "r",
      "y", "t", "h", "i", "n", "g">>)
                  \cup {ChatBody(Absent, Absent, Absent)},
        endpoint \in {NonSuccess, Answer(Some(<<"S", "E", "L", "E", "C", "T", " ", "*",
            " ", "F", "R", "O", "M", " ", "r", "e", "c", "e", "i", "p", "t",
            "s">>)),
                      Answer(Some(<<"S", "E", "L", "E", "C", "T", " ", "x",
            " ", "F", "R", "O", "M", " ", "n", "o", "w", "h", "e", "r",
            "e">>))} :
       SqlPost(body, endpoint)
  /\ UNCHANGED pureVars

SessionLlm ==
  /\ MayAsk
  /\ \E body \in SessionBodies(<<"r", "e", "c", "e", "i", "p", "t", "s">>),
        endpoint \in {NonSuccess, Answer(Some(<<"D", "o", "n", "e", ".">>))} :
       LlmPost(body, endpoint)
  /\ UNCHANGED pureVars

\* the statement has come; the call that formats the rows fails or answers
SessionSqlGenerated ==
  /\ \E i \in DOMAIN inflight :
       SqlGenerated(i, {NonSuccess, Answer(Some(<<"D", "o", "n", "e", ".">>))})
  /\ UNCHANGED pureVars

NextSessions ==
  \/ SessionAuditor
  \/ SessionSql
  \/ SessionLlm
  \/ SessionSqlGenerated
  \/ ResumeSqlFormatted
  \/ ResumeLlmAnswered

SpecSessions == Init /\ [][NextSessions]_vars

----------------------------------------------------------------------------
(* C23 *)

\* the log is a sequence of pairs: a user message and, right after it, the
\* assistant message of the same session
PairsOnly(log) ==
  /\ Len(log) % 2 = 0
  /\ \A i \in DOMAIN log :
       i % 2 = 1 => /\ log[i].role = "user"
                    /\ log[i + 1].role = "assistant"
                    /\ log[i + 1].session_id = log[i].session_id
\* the messages of one session, in the order of the log
SessionLog(log, s) == SelectSeq(log, LAMBDA m : m.session_id = s)

\* the step is the return of a handler: of one that was waiting for the
\* model, or of one that did not have to wait
Returns == Len(inflight') < Len(inflight) \/ inflight' = inflight

----------------------------------------------------------------------------
(* C24 *)

\* the tables and columns of the schema do not answer the statement
Refused(sql) ==
  toLowerCase(sql)
    \notin {SelectAllReceipts, SelectCountReceipts, SelectVendorNames}
\* the request handled last had its statement refused by the store
ExecutionFailed ==
  /\ request.route = "POST /api/auditor/sql"
  /\ request.executed # <<>>
  /\ Refused(request.executed[1])

\* C24: on the route of generated statements an error of the store is
\* caught and returned as it is in the message, with status 400 and the
\* text of the statement; the statement is not run again, the model is not
\* called again, and the requests of others go on.
C24_ExecutionError ==
  [][ExecutionFailed' /\ Returns
       => /\ response'.status = 400
          /\ response'.message
               = Message("SQL error: ", <<sqlError(request'.executed[1])>>,
                         <<>>, Absent)
          /\ response'.sql = Some(request'.executed[1])
          /\ Len(request'.executed) = 1
          /\ Len(request'.calls) = 1
          /\ request'.calls[1].call = "generateSQL"
          /\ \E i \in DOMAIN inflight : inflight' = RemoveAt(inflight, i)
          /\ UNCHANGED <<vendors, receipts, line_items, chat_history>>]_vars
C24_Witness ==
  /\ ExecutionFailed
  /\ response.status = 400
  /\ response.error = "SQL execution failed"
  /\ Len(inflight) = 2
  /\ chat_history = <<>>

----------------------------------------------------------------------------
(* C25 *)

\* no rule before the threshold rules applies to the text
NoHigherPriority(q) ==
  /\ ~Test("count", q)
  /\ ~Test("flagged", q)
  /\ ~(Test("total_spending", q) /\ ~Test("high_value", q)
                                 /\ ~Test("low_value", q))

\* C25: the threshold is absent exactly when the question has no digit run;
\* a question that matches high_value (or low_value, and not high_value), no
\* rule of higher priority, and has a digit run is classified as high_value
\* (low_value) with the value of its first digit run as the one parameter,
\* whatever that value is, 0 included.
C25_ThresholdOfDigitRun ==
  pc = "done" =>
    /\ IsPresent(extractNumber(query)) <=> HasDigit(query)
    /\ (HasDigit(query) /\ NoHigherPriority(query)
          /\ Test("high_value", query))
         => /\ Val(parsed).intent = "high_value_receipts"
            /\ Val(parsed).params = <<Val(extractNumber(query))>>
    /\ (HasDigit(query) /\ NoHigherPriority(query)
          /\ ~Test("high_value", query) /\ Test("low_value", query))
         => /\ Val(parsed).intent = "low_value_receipts"
            /\ Val(parsed).params = <<Val(extractNumber(query))>>

----------------------------------------------------------------------------
(* parseExtractionResponse: the answer of the vision model as receipt data. *)
(* A response is the JSON object found in its text, if there is one; the    *)
(* numbers of the object are JSON numbers.                                  *)

\* x ? Number(x) : undefined
NumberOrUndefined(x) == IF TruthyNum(x) THEN x ELSE Absent
\* Number(x) || d
NumberOr(x, d) == IF TruthyNum(x) THEN Val(x) ELSE d

\* one entry of item.subItems
ExtractedSubItem(sub) ==
  [name |-> IF TruthyName(sub.name) THEN Val(sub.name) ELSE "Sub-item",
   quantity |-> NumberOr(sub.quantity, 1),
   unitPrice |-> NumberOrUndefined(sub.unitPrice),
   totalPrice |-> NumberOr(sub.totalPrice, 0)]
\* one entry of parsed.items
ExtractedItem(item) ==
  [name |-> IF TruthyName(item.name) THEN Val(item.name) ELSE "Unknown Item",
   quantity |-> NumberOr(item.quantity, 1),
   unitPrice |-> NumberOrUndefined(item.unitPrice),
   totalPrice |-> NumberOr(item.totalPrice, 0),
   subItems |-> IF IsPresent(item.subItems)
                THEN Some([i \in 1..Len(Val(item.subItems)) |->
                             ExtractedSubItem(Val(item.subItems)[i])])
                ELSE Absent]

\* parsed.receipt?.paymentMethod || 'other'
ExtractedPaymentMethod(receipt) ==
  IF TruthyName(Field(receipt, "paymentMethod"))
  THEN Val(Field(receipt, "paymentMethod"))
  ELSE "other"

\* the returned { vendor, receipt, items } for the object of the response
parseExtractionResponse(json) ==
  [vendor |->
     IF TruthyName(Field(json.vendor, "name"))
     THEN Some([name |-> Val(Field(json.vendor, "name")),
                address |-> Field(json.vendor, "address"),
                phone |-> Field(json.vendor, "phone"),
                businessNumber |-> Field(json.vendor, "businessNumber")])
     ELSE Absent,
   receipt |->
     [date |-> Field(json.receipt, "date"),
      time |-> Field(json.receipt, "time"),
      subtotal |-> NumberOrUndefined(Field(json.receipt, "subtotal")),
      taxAmount |-> NumberOrUndefined(Field(json.receipt, "taxAmount")),
      serviceCharge |->
        NumberOrUndefined(Field(json.receipt, "serviceCharge")),
      discount |-> NumberOrUndefined(Field(json.receipt, "discount")),
      totalAmount |-> NumberOr(Field(json.receipt, "totalAmount"), 0),
      paymentMethod |-> ExtractedPaymentMethod(json.receipt),
      cashPaid |-> NumberOrUndefined(Field(json.receipt, "cashPaid")),
      cardPaid |-> NumberOrUndefined(Field(json.receipt, "cardPaid")),
      changeAmount |->
        NumberOrUndefined(Field(json.receipt, "changeAmount"))],
   items |->
     IF IsPresent(json.items)
     THEN [i \in 1..Len(Val(json.items)) |-> ExtractedItem(Val(json.items)[i])]
     ELSE <<>>]

\* the answers of the model: with or without labelled method, paid amounts
\* absent, zero or positive
PaidAmounts == {Absent, Some(0), Some(5000)}
ResponseReceipts ==
  [date : {Absent}, time : {Absent}, subtotal : {Absent, Some(4500)},
   taxAmount : {Absent}, serviceCharge : {Absent}, discount : {Absent},
   totalAmount : {Some(5000)},
   paymentMethod : {Absent, Some(""), Some("card")},
   cashPaid : PaidAmounts, cardPaid : PaidAmounts, changeAmount : {Absent}]
ResponseVendors ==
  {Absent,
   Some([name |-> Some(""), address |-> Absent, phone |-> Absent,
         businessNumber |-> Absent]),
   Some([name |-> Some("Toko A"), address |-> Some("Jl. 1"), phone |-> Absent,
         businessNumber |-> Absent])}
ResponseItems ==
  {Absent,
   Some(<<[name |-> Absent, quantity |-> Absent, unitPrice |-> Absent,
           totalPrice |-> Some(5000), subItems |-> Absent]>>),
   Some(<<[name |-> Some("Nasi"), quantity |-> Some(2),
           unitPrice |-> Some(2500), totalPrice |-> Some(5000),
           subItems |-> Some(<<[name |-> Absent, quantity |-> Absent,
                                unitPrice |-> Some(0),
                                totalPrice |-> Absent]>>)]>>)}
\* response.match(/\{[\s\S]*\}/): the object, or nothing
ExtractionResponses ==
  {[jsonMatch |-> Absent]}
    \cup {[jsonMatch |-> Some([vendor |-> v, receipt |-> r, items |-> its])] :
            v \in ResponseVendors,
            r \in {Absent} \cup {Some(x) : x \in ResponseReceipts},
            its \in ResponseItems}

InitExtract ==
  /\ pc = "call"
  /\ rawResponse \in {Some(r) : r \in ExtractionResponses}
  /\ extraction = Absent
  /\ priceStr = Absent /\ price = Absent
  /\ result = Absent /\ errors = <<>>
  /\ gtParse = Absent
  /\ query = <<>> /\ parsed = Absent
  /\ IdleStore

\* throw new Error('No JSON found in response')
ThrowNoJson ==
  /\ pc = "call"
  /\ ~IsPresent(Val(rawResponse).jsonMatch)
  /\ pc' = "thrown"
  /\ UNCHANGED <<priceStr, price, result, errors, gtParse, extraction, query,
                 parsed, rawResponse>>
  /\ UNCHANGED storeVars

CallParseExtractionResponse ==
  /\ pc = "call"
  /\ IsPresent(Val(rawResponse).jsonMatch)
  /\ extraction' = Some(parseExtractionResponse(Val(Val(rawResponse).jsonMatch)))
  /\ pc' = "done"
  /\ UNCHANGED <<priceStr, price, result, errors, gtParse, query, parsed,
                 rawResponse>>
  /\ UNCHANGED storeVars

NextExtract == ThrowNoJson \/ CallParseExtractionResponse
SpecExtract == InitExtract /\ [][NextExtract]_vars

----------------------------------------------------------------------------
(* C26 *)

\* the receipt of the answer, when it has one
AnsweredReceipt == Val(Val(rawResponse).jsonMatch).receipt
Paid(amount) == IsPresent(amount) /\ Val(amount) # 0

\* C26: when the answer does not label the payment method, the receipt built
\* from it has the method inferred from the paid amounts: mixed when cash
\* and card are both present and non-zero, cash when only cash is, card when
\* only card is, other when neither is.
C26_MethodInferred ==
  (pc = "done" /\ IsPresent(AnsweredReceipt)
     /\ Val(AnsweredReceipt).paymentMethod \in {Absent, Some("")})
    => LET cash == Paid(Val(AnsweredReceipt).cashPaid)
           card == Paid(Val(AnsweredReceipt).cardPaid)
       IN  Val(extraction).receipt.paymentMethod
             = IF cash /\ card THEN "mixed"
               ELSE IF cash THEN "cash"
               ELSE IF card THEN "card"
               ELSE "other"

----------------------------------------------------------------------------
(* C27 *)

\* the record of the file names its vendor
NamesVendor(rec) ==
  /\ IsPresent(rec.vendor)
  /\ TruthyName(Val(rec.vendor).name)

\* C27: in batch seeding a record whose vendor name is absent or empty is
\* stored as a receipt without vendor reference and creates no vendor row:
\* a receipt row refers to a vendor only when its record names one, and
\* every vendor row created carries a name found in the batch.
C27_NoVendorWithoutName ==
  [][Seeded'
       => LET batch == Val(request'.file)
              named == {k \in DOMAIN batch : NamesVendor(batch[k])}
              newReceipts == Gained(receipts, receipts')
              newVendors == Gained(vendors, vendors')
          IN  /\ \A i \in DOMAIN newReceipts :
                    IsPresent(newReceipts[i].vendor_id)
                      => \E k \in named :
                           batch[k].receipt.id = newReceipts[i].id
              /\ \A j \in DOMAIN newVendors :
                    \E k \in named :
                      Val(Val(batch[k].vendor).name) = newVendors[j].name]_vars

----------------------------------------------------------------------------
(* GET /api/auditor?sessionId=...: the history of a session.  The statement *)
(* orders by created_at alone; the order of rows with equal created_at is   *)
(* left to the store, so every such order is a result the call can give.    *)

\* the orders of the rows at the indices of S that ascend in created_at
RECURSIVE OrderedByCreatedAt(_, _)
OrderedByCreatedAt(log, S) ==
  IF S = {} THEN {<<>>}
  ELSE LET earliest == {i \in S : \A j \in S :
                          log[i].created_at <= log[j].created_at}
       IN  UNION {{<<log[i]>> \o rest :
                     rest \in OrderedByCreatedAt(log, S \ {i})} :
                  i \in earliest}

\* SELECT * FROM chat_history WHERE session_id = ? ORDER BY created_at
getChatHistory(log, sessionId) ==
  OrderedByCreatedAt(log, {i \in DOMAIN log : log[i].session_id = sessionId})

\* the handler; sessionId is the parameter of the URL, absent or given
HistoryGet(sessionId) ==
  /\ request' = [route |-> "GET /api/auditor", sessionId |-> sessionId]
  /\ IF ~IsPresent(sessionId)
     THEN response' = [status |-> 400, error |-> "sessionId is required"]
     ELSE \E history \in getChatHistory(chat_history, Val(sessionId)) :
            response' = [status |-> 200, sessionId |-> Val(sessionId),
                         messages |-> history]
  /\ UNCHANGED <<vendors, receipts, line_items, nextId, chat_history,
                 inflight>>

\* questions are asked on the rule-based route for either session, and the
\* history of a session is fetched
MaxAsked == 2
AskInSession ==
  /\ Len(chat_history) < 2 * MaxAsked
  /\ \E body \in SessionBodies(<<"f", "l", "a", "g", "g", "e", "d">>)
                  \cup SessionBodies(<<"c", "a", "s", "h">>) :
       AuditorPost(body)
  /\ UNCHANGED pureVars
GetHistory ==
  /\ \E sessionId \in {Absent} \cup {Some(x) : x \in SessionIds} :
       HistoryGet(sessionId)
  /\ UNCHANGED pureVars

NextHistory == AskInSession \/ GetHistory
SpecHistory == Init /\ [][NextHistory]_vars

----------------------------------------------------------------------------
(* C28 *)

\* the history of a session was fetched
Fetched == request.route = "GET /api/auditor" /\ response.status = 200

\* C28: the history fetched for a session is all and only the rows of the
\* session in the order of their insertion, each question before its
\* answer, also when rows were inserted within one tick of the clock.
C28_HistoryInInsertionOrder ==
  Fetched
    => /\ response.messages
            = SelectSeq(chat_history,
                        LAMBDA row : row.session_id = response.sessionId)
       /\ \A i \in DOMAIN response.messages :
            response.messages[i].role
              = IF i % 2 = 1 THEN "user" ELSE "assistant"

----------------------------------------------------------------------------
(* C29 *)

\* a statement of the request throws: the receipt has no total, or an item
\* or a sub-item lacks its name or its price
InsertFails(body) ==
  \/ body.receipt.totalAmount = Absent
  \/ \E i \in DOMAIN body.items :
       \/ Absent \in {body.items[i].name, body.items[i].totalPrice}
       \/ \E j \in DOMAIN body.items[i].subItems :
            Absent \in {body.items[i].subItems[j].name,
                        body.items[i].subItems[j].totalPrice}

\* the names of the items and sub-items of a body, in the order of insertion
RECURSIVE NamesInOrder(_)
NamesInOrder(items) ==
  IF items = <<>> THEN <<>>
  ELSE <<items[1].name>>
         \o [j \in DOMAIN items[1].subItems |-> items[1].subItems[j].name]
         \o NamesInOrder(Tail(items))

\* C29: POST /api/receipts is all or nothing: when the insert of the
\* receipt, of an item or of a sub-item fails, no row of the request
\* persists, the tables are as before and the response is 500; otherwise
\* the receipt, all its items and all their sub-items are stored together.
C29_AllOrNothing ==
  [][request'.route = "POST /api/receipts"
       => LET body == request'.body
              newItems == Gained(line_items, line_items')
          IN  IF InsertFails(body)
              THEN /\ response'.status = 500
                   /\ UNCHANGED <<vendors, receipts, line_items>>
              ELSE /\ response'.status = 200
                   /\ Ids(Gained(receipts, receipts')) = <<response'.receipt>>
                   /\ [i \in DOMAIN newItems |-> Some(newItems[i].name)]
                        = NamesInOrder(body.items)
                   /\ \A i \in DOMAIN newItems :
                        newItems[i].receipt_id = response'.receipt]_vars

\* a request that had created a vendor, the receipt and an item before a
\* sub-item failed
C29_Witness ==
  /\ request.route = "POST /api/receipts"
  /\ response.status = 500
  /\ TruthyName(Field(request.body.vendor, "name"))
  /\ ~IsPresent(getVendorByName(vendors,
                                Val(Val(request.body.vendor).name)))
  /\ request.body.items # <<>>
  /\ ItemBinds(request.body.items[1])
  /\ request.body.items[1].subItems # <<>>
  /\ receipts # <<>>

----------------------------------------------------------------------------
(* C30 *)

\* the request handled last was a question that got no answer: its message
\* was missing, the statement was not generated, or its processing failed
Unanswered ==
  /\ request.route \in QueryRoutes
  /\ \/ response.status \in {400, 500}
     \/ ApologyResponse

C30_WitnessMissing ==
  /\ Unanswered /\ chat_history # <<>>
  /\ response.status = 400 /\ ~IsPresent(request.body.message)
C30_WitnessApology == ApologyResponse /\ chat_history # <<>>
C30_WitnessFailed ==
  /\ Unanswered /\ chat_history # <<>> /\ response.status = 500
====
